---- MODULE Spec2Model ----
(***************************************************************************)
(* A model of the SteosMorphy morphological analyzer (analyzer.go):        *)
(* the loader of the dictionary file, dictionary lookup over a flat DAWG,   *)
(* paradigm expansion, the suffix predictor, the concurrent batch pipeline *)
(* of ParseList/InflectList, and the calls of the C binding (part_000).    *)
(*                                                                         *)
(* Strings are sequences of code points (Integers); 'A'..'Z' are 65..90    *)
(* and 'a'..'z' are 97..122, so that case folding and the byte-wise string *)
(* order of Go are computed, not assumed.  Go slices are 0-based: At and   *)
(* Slice keep the indices of the source.                                   *)
(***************************************************************************)
EXTENDS Integers, Sequences, FiniteSets, TLC

VARIABLES
    a,             \* the MorphAnalyzer the process holds (morphAnalyzer of the
                   \* binding): NilAnalyzer, or what the loader built
    mapped,        \* the process holds a memory mapping made by the loader
    phase,         \* "idle": no call in progress; "batch": ParseList/InflectList
                   \* runs; "crashed": a panic has ended the process
    last,          \* the last completed call: its operation, arguments and result
    bop,           \* the batch operation in progress: "ParseList" or "InflectList"
    words,         \* the word list of the batch call
    di,            \* dispatcher: loop index i
    dpc,           \* dispatcher: "run", or "done" after close(chunksCh)
    chunksCh,      \* buffered channel of chunks (capacity numWorkers)
    chunksClosed,  \* close(chunksCh) has run
    resultCh,      \* buffered channel of chunk results (capacity numWorkers)
    resultClosed,  \* close(resultCh) has run
    wpc,           \* per worker: "recv", "send" or "done"
    wbuf,          \* per worker: parsedChunk waiting to be sent
    wg,            \* sync.WaitGroup counter
    allParsed      \* collector: results appended so far, in arrival order

vars == <<a, mapped, phase, last, bop, words, di, dpc, chunksCh, chunksClosed,
          resultCh, resultClosed, wpc, wbuf, wg, allParsed>>

batchVars == <<bop, words, di, dpc, chunksCh, chunksClosed,
               resultCh, resultClosed, wpc, wbuf, wg, allParsed>>

-----------------------------------------------------------------------------
(* Bounds of the model. *)

\* runtime.NumCPU() on the modelled host.
NumWorkers == 2

\* chunkSize of ParseList/InflectList, scaled down from 1000 so that a short
\* word list is cut into more chunks than there are workers and than the
\* channels hold.
ChunkSize == 1

\* Longest word list passed to ParseList/InflectList.
MaxWords == 3

\* Most candidates findBestPrediction is given to rank.
MaxCandidates == 13

\* Longest tag string given to newParsed, in characters.
MaxTagLen == 4

-----------------------------------------------------------------------------
(* Go slices and strings. *)

At(arr, i) == arr[i + 1]

Slice(arr, s, e) == SubSeq(arr, s + 1, e)

Min(x, y) == IF x < y THEN x ELSE y

\* strings.ToLower, on the code points the model uses.
LowerRune(c) == IF c >= 65 /\ c <= 90 THEN c + 32 ELSE c

ToLower(s) == [i \in 1..Len(s) |-> LowerRune(s[i])]

\* The built-in < of Go strings: byte-wise lexicographic order.
RECURSIVE StrLess(_, _)
StrLess(s, t) ==
    IF t = <<>> THEN FALSE
    ELSE IF s = <<>> THEN TRUE
    ELSE IF Head(s) # Head(t) THEN Head(s) < Head(t)
    ELSE StrLess(Tail(s), Tail(t))

HasPrefix(s, p) == Len(s) >= Len(p) /\ SubSeq(s, 1, Len(p)) = p

HasSuffix(s, x) == Len(s) >= Len(x) /\ SubSeq(s, Len(s) - Len(x) + 1, Len(s)) = x

TrimPrefix(s, p) == IF HasPrefix(s, p) THEN SubSeq(s, Len(p) + 1, Len(s)) ELSE s

TrimSuffix(s, x) == IF HasSuffix(s, x) THEN SubSeq(s, 1, Len(s) - Len(x)) ELSE s

-----------------------------------------------------------------------------
(* Records of the binary lexicon. *)

FlatNode(payloadIdx, edgesIdx, payloadLen, edgesLen, isFinal) ==
    [PayloadIdx |-> payloadIdx, EdgesIdx |-> edgesIdx,
     PayloadLen |-> payloadLen, EdgesLen |-> edgesLen, IsFinal |-> isFinal]

FlatEdge(char, nodeID) == [Char |-> char, NodeID |-> nodeID]

MorphInfo(lemmaID, tagsID, paradigmID) ==
    [LemmaID |-> lemmaID, TagsID |-> tagsID, ParadigmID |-> paradigmID]

PredictInfo(frequency, paradigmID, formIdx, tagsID) ==
    [Frequency |-> frequency, ParadigmID |-> paradigmID,
     FormIdx |-> formIdx, TagsID |-> tagsID]

ParadigmInfo(stem, nodeID) == [Stem |-> stem, NodeID |-> nodeID]

\* The Parsed record built by newParsed: the surface word, the lemma and the
\* raw tag string.
newParsed(word, lemma, tagString) ==
    [Word |-> word, Lemma |-> lemma, Tags |-> tagString]

-----------------------------------------------------------------------------
(* The lexicons the analyzer is loaded from.                               *)
(*                                                                         *)
(* Main DAWG (the same in all lexicons but for the root):                   *)
(*   node 0 root  --a--> 1, --b--> 3, --c--> 5, --d--> 6                   *)
(*   node 1 "a"   final  [a/T0/P1]                    --b--> 2             *)
(*   node 2 "ab"  final  [a/T1/P1, a/T2/P1, ab/T0/P2]                      *)
(*   node 3 "b"   not final                           --a--> 4             *)
(*   node 4 "ba"  final  [ba/T0/P3]                                        *)
(*   node 5 "c"   final  [ba/T1/P3]                                        *)
(*   node 6 "d"   not final                           --a--> 7             *)
(*   node 7 "da"  final  [ba/T2/P3]                                        *)
(* Paradigm 1 (lemma "a") has the forms a, ab; paradigm 2 (lemma "ab") the *)
(* homonymous form ab; paradigm 3 (lemma "ba") is suppletive: its forms    *)
(* ba, c and da lie under the three stems "b", "c" and "d".                *)
(*                                                                         *)
(* Prediction DAWG:                                                        *)
(*   node 0 root  --a--> 1, --b--> 2, --d--> 3                             *)
(*   node 1 "a"   final  [freq 2 P3 form 2 T1]                  --b--> 4   *)
(*   node 2 "b"   final  [freq 1 P2 form 0 T0, freq 3 P1 form 1 T2] --b--> 5 *)
(*   node 3 "d"   not final                          --d--> 6, --e--> 7    *)
(*   node 4 "ab"  final  [freq 2 P1 form 1 T2]                             *)
(*   node 5 "bb"  final  [freq 1 P2 form 0 T0]                             *)
(*   node 6 "dd"  final  [freq 1 P1 form 0 T0]                             *)
(*   node 7 "de"  final  [freq 1 P2 form 0 T0]                             *)
(***************************************************************************)

MainNodes ==
    << FlatNode(0, 0, 0, 4, FALSE),
       FlatNode(0, 4, 1, 1, TRUE),
       FlatNode(1, 5, 3, 0, TRUE),
       FlatNode(4, 5, 0, 1, FALSE),
       FlatNode(4, 6, 1, 0, TRUE),
       FlatNode(5, 6, 1, 0, TRUE),
       FlatNode(6, 6, 0, 1, FALSE),
       FlatNode(6, 7, 1, 0, TRUE) >>

MainEdges ==
    << FlatEdge(97, 1), FlatEdge(98, 3), FlatEdge(99, 5), FlatEdge(100, 6),
       FlatEdge(98, 2),
       FlatEdge(97, 4),
       FlatEdge(97, 7) >>

MainPayloads ==
    << MorphInfo(0, 0, 1),
       MorphInfo(0, 1, 1), MorphInfo(0, 2, 1), MorphInfo(1, 0, 2),
       MorphInfo(2, 0, 3),
       MorphInfo(2, 1, 3),
       MorphInfo(2, 2, 3) >>

PredictNodes ==
    << FlatNode(0, 0, 0, 3, FALSE),
       FlatNode(0, 3, 1, 1, TRUE),
       FlatNode(1, 4, 2, 1, TRUE),
       FlatNode(3, 5, 0, 2, FALSE),
       FlatNode(3, 7, 1, 0, TRUE),
       FlatNode(4, 7, 1, 0, TRUE),
       FlatNode(5, 7, 1, 0, TRUE),
       FlatNode(6, 7, 1, 0, TRUE) >>

PredictEdges ==
    << FlatEdge(97, 1), FlatEdge(98, 2), FlatEdge(100, 3),
       FlatEdge(98, 4),
       FlatEdge(98, 5),
       FlatEdge(100, 6), FlatEdge(101, 7) >>

PredictPayloads ==
    << PredictInfo(2, 3, 2, 1),
       PredictInfo(1, 2, 0, 0), PredictInfo(3, 1, 1, 2),
       PredictInfo(2, 1, 1, 2),
       PredictInfo(1, 2, 0, 0),
       PredictInfo(1, 1, 0, 0),
       PredictInfo(1, 2, 0, 0) >>

\* A lexicon as the builder lays it out: every form of a paradigm lies below
\* one of the paradigm's stems.
LexiconBuilt ==
    [LemmaPool |-> << <<97>>, <<97, 98>>, <<98, 97>> >>,
     tagsPool |-> << "N,sg", "N,pl", "V" >>,
     paradigms |-> (1 :> << ParadigmInfo(<<97>>, 1) >>)
                @@ (2 :> << ParadigmInfo(<<97, 98>>, 2) >>)
                @@ (3 :> << ParadigmInfo(<<98>>, 3), ParadigmInfo(<<99>>, 5),
                            ParadigmInfo(<<100>>, 6) >>),
     paradigmToLemmaID |-> (1 :> 0) @@ (2 :> 1) @@ (3 :> 2),
     nodes |-> MainNodes, edges |-> MainEdges, payloads |-> MainPayloads,
     predictNodes |-> PredictNodes, predictEdges |-> PredictEdges,
     predictPayloads |-> PredictPayloads]

\* A lexicon that meets every invariant the data model lists (indices in range,
\* sorted edge windows, a non-empty stem list per paradigm, each stem spelled
\* from the root to its node, every rule of the predictor naming a form that
\* is there) but whose paradigm 3 is anchored at a stem that none of its forms
\* lies below; the rule of the suffix "a" names form 0 of paradigm 1.
LexiconLoose ==
    [LexiconBuilt EXCEPT !.paradigms = (1 :> << ParadigmInfo(<<97>>, 1) >>)
                                    @@ (2 :> << ParadigmInfo(<<97, 98>>, 2) >>)
                                    @@ (3 :> << ParadigmInfo(<<97>>, 1) >>),
                         !.predictPayloads = [PredictPayloads EXCEPT
                                                 ![1] = PredictInfo(2, 1, 0, 1)]]

\* A lexicon the loader takes as it takes any other (it checks no record),
\* written by a builder that keeps none of its promises: the root is final,
\* so the empty word is a dictionary word with the parse a/T0/P1; the rule of
\* the suffix "ab" names form 5 of paradigm 1, which has two forms; the rule
\* of the suffix "dd" names paradigm 9, which no table holds; the final node
\* of the suffix "de" has an empty payload window.
LexiconUnchecked ==
    [LexiconBuilt EXCEPT
        !.nodes = [MainNodes EXCEPT ![1] = FlatNode(0, 0, 1, 4, TRUE)],
        !.predictNodes = [PredictNodes EXCEPT ![8] = FlatNode(6, 7, 0, 0, TRUE)],
        !.predictPayloads = [PredictPayloads EXCEPT ![4] = PredictInfo(2, 1, 5, 2),
                                                    ![6] = PredictInfo(1, 9, 0, 0)]]

Lexicons == {LexiconBuilt, LexiconLoose, LexiconUnchecked}

\* The words put to the single-word queries: dictionary words, their case
\* variants, words only the predictor knows (by a suffix of one or of two
\* characters, in either case, with a template that fits or does not), a
\* word of more than five characters, unknown words, the empty word.
QueryWords ==
    { <<>>, <<97>>, <<97, 98>>, <<98, 97>>, <<99>>, <<98>>,
      <<65>>, <<65, 66>>, <<65, 98>>, <<66, 65>>, <<67>>,
      <<99, 98>>, <<98, 98>>, <<67, 66>>, <<99, 99>>,
      <<100, 97>>, <<99, 97>>, <<99, 97, 98>>, <<100, 100>>, <<99, 100>>,
      <<100, 101>>, <<99, 99, 99, 99, 98, 98>>, <<67, 98>>, <<66, 66>>,
      <<67, 65>>, <<68, 68>> }

\* The words batch lists are made of.
ListWords == { <<97, 98>>, <<67>>, <<99, 98>> }

\* The lemma arguments put to Predict.
QueryLemmas == { <<97>>, <<99>> }

-----------------------------------------------------------------------------
(* DAWG traversal. *)

PayloadWindow(node, payloads) ==
    Slice(payloads, node.PayloadIdx, node.PayloadIdx + node.PayloadLen)

EdgeWindow(node, edges) ==
    Slice(edges, node.EdgesIdx, node.EdgesIdx + node.EdgesLen)

\* sort.Search(n, f) with f(i) = slice[i].Char >= char: the smallest index in
\* [lo, hi) at which f holds, hi if there is none, by bisection.
RECURSIVE SearchEdge(_, _, _, _)
SearchEdge(searchSlice, char, lo, hi) ==
    IF lo >= hi THEN lo
    ELSE IF ~(At(searchSlice, (lo + hi) \div 2).Char >= char)
         THEN SearchEdge(searchSlice, char, (lo + hi) \div 2 + 1, hi)
         ELSE SearchEdge(searchSlice, char, lo, (lo + hi) \div 2)

\* The test on the index i that sort.Search returned.
edgeAt(searchSlice, char, i) ==
    IF i < Len(searchSlice) /\ At(searchSlice, i).Char = char
    THEN [found |-> TRUE, node |-> At(searchSlice, i).NodeID]
    ELSE [found |-> FALSE, node |-> 0]

findChildGeneral(nodeIndex, char, nodes, edges) ==
    IF At(nodes, nodeIndex).EdgesLen = 0 THEN [found |-> FALSE, node |-> 0]
    ELSE edgeAt(EdgeWindow(At(nodes, nodeIndex), edges), char,
                SearchEdge(EdgeWindow(At(nodes, nodeIndex), edges), char, 0,
                           At(nodes, nodeIndex).EdgesLen))

\* The walk loop of Parse, Inflect and findBestPrediction: follow chars from
\* currentNodeIndex; found is FALSE as soon as a character has no edge.
RECURSIVE walk(_, _, _, _)
RECURSIVE walkOn(_, _, _, _, _)
walk(currentNodeIndex, chars, nodes, edges) ==
    IF chars = <<>> THEN [found |-> TRUE, node |-> currentNodeIndex]
    ELSE walkOn(findChildGeneral(currentNodeIndex, Head(chars), nodes, edges),
                currentNodeIndex, Tail(chars), nodes, edges)

\* One iteration of the walk loop, given the result of findChildGeneral.
walkOn(child, currentNodeIndex, rest, nodes, edges) ==
    IF ~child.found THEN [found |-> FALSE, node |-> currentNodeIndex]
    ELSE walk(child.node, rest, nodes, edges)

-----------------------------------------------------------------------------
(* Parse: dictionary lookup. *)

\* One Parsed per entry of the payload window, in payload order.
parsesOf(word, window) ==
    [i \in 1..Len(window) |->
        newParsed(word, At(a.LemmaPool, window[i].LemmaID),
                  At(a.tagsPool, window[i].TagsID))]

\* Parse after the walk loop, w being where the walk ended.
parsesAt(word, w) ==
    IF ~w.found THEN <<>>
    ELSE IF ~At(a.nodes, w.node).IsFinal THEN <<>>
    ELSE parsesOf(word, PayloadWindow(At(a.nodes, w.node), a.payloads))

\* Fault: the walk follows the word as written, without lower-casing it.
ParseNoLower(word) == parsesAt(word, walk(0, word, a.nodes, a.edges))

\* The first element of a slice, if it has one.
firstOnly(s) == IF s = <<>> THEN <<>> ELSE <<s[1]>>

\* Fault: only the first entry of the payload window is returned.
ParseFirstOnly(word) ==
    firstOnly(parsesAt(word, walk(0, ToLower(word), a.nodes, a.edges)))

Parse(word) == parsesAt(word, walk(0, ToLower(word), a.nodes, a.edges))

-----------------------------------------------------------------------------
(* Go maps, as functions on their key sets. *)

EmptyMap == [k \in {} |-> 0]

MapPut(m, key, val) ==
    [k \in (DOMAIN m) \cup {key} |-> IF k = key THEN val ELSE m[k]]

\* The elements of a set in some order: the order in which range visits the
\* keys of a map whose visiting order cannot matter (unique keys, sorted after).
RECURSIVE SetToSeq(_)
SetToSeq(S) ==
    IF S = {} THEN <<>>
    ELSE LET x == CHOOSE y \in S : TRUE IN <<x>> \o SetToSeq(S \ {x})

\* All orders in which range may visit the keys in S.
RECURSIVE Orders(_)
Orders(S) ==
    IF S = {} THEN {<<>>}
    ELSE UNION {{<<x>> \o o : o \in Orders(S \ {x})} : x \in S}

-----------------------------------------------------------------------------
(* sort.Slice / sort.Strings on the short slices of the model: the insertion  *)
(* sort the sort package runs on slices of at most 12 elements (stable).      *)

PredictionCandidate(p, suffixLen) ==
    [Frequency |-> p.Frequency, ParadigmID |-> p.ParadigmID,
     FormIdx |-> p.FormIdx, TagsID |-> p.TagsID, SuffixLen |-> suffixLen]

\* The comparator of Inflect, Predict, ParseList and InflectList.
LessByWord(p, q) == StrLess(p.Word, q.Word)

\* Fault: the candidates are ranked by frequency alone.
LessCandidateByFrequency(ci, cj) == ci.Frequency > cj.Frequency

\* The comparator of findBestPrediction: longer suffix first, then higher
\* frequency.
LessCandidate(ci, cj) ==
    IF ci.SuffixLen # cj.SuffixLen THEN ci.SuffixLen > cj.SuffixLen
    ELSE ci.Frequency > cj.Frequency

\* The less function of a sort call, named by the call: "word" for the
\* sort.Slice calls on []*Parsed, "candidate" for the one of
\* findBestPrediction, "string" for sort.Strings.
Less(by, x, y) ==
    CASE by = "word" -> LessByWord(x, y)
      [] by = "candidate" -> LessCandidate(x, y)
      [] by = "string" -> StrLess(x, y)

\* x put into sorted after its first p elements.
insertAfter(sorted, x, p) ==
    SubSeq(sorted, 1, p) \o <<x>> \o SubSeq(sorted, p + 1, Len(sorted))

\* One pass of the inner loop: x, appended at the end, is swapped downwards
\* while it is less than its left neighbour, i.e. down to the last element
\* that x is not less than.
InsertSorted(sorted, x, by) ==
    IF \A q \in 1..Len(sorted) : Less(by, x, sorted[q]) THEN <<x>> \o sorted
    ELSE insertAfter(sorted, x,
                     CHOOSE q \in 1..Len(sorted) :
                        /\ ~Less(by, x, sorted[q])
                        /\ \A r \in (q + 1)..Len(sorted) : Less(by, x, sorted[r]))

RECURSIVE sortPrefix(_, _, _)
sortPrefix(data, i, by) ==
    IF i = 0 THEN <<>> ELSE InsertSorted(sortPrefix(data, i - 1, by), data[i], by)

SortSlice(data, by) == sortPrefix(data, Len(data), by)

-----------------------------------------------------------------------------
(* dfsGenerate: depth-first expansion of a paradigm from an anchor node. *)

\* Fault: a form that is in the map already keeps its TagsID.
RECURSIVE emitPayloadsFirstWins(_, _, _, _)
emitPayloadsFirstWins(infos, form, targetID, results) ==
    IF infos = <<>> THEN results
    ELSE emitPayloadsFirstWins(Tail(infos), form, targetID,
                               IF Head(infos).ParadigmID = targetID
                                  /\ form \notin DOMAIN results
                               THEN MapPut(results, form, Head(infos).TagsID)
                               ELSE results)

\* The payload loop of findWord: every entry of the target paradigm writes
\* results[form] = TagsID, a later entry overwriting an earlier one.
RECURSIVE emitPayloads(_, _, _, _)
emitPayloads(infos, form, targetID, results) ==
    IF infos = <<>> THEN results
    ELSE emitPayloads(Tail(infos), form, targetID,
                      IF Head(infos).ParadigmID = targetID
                      THEN MapPut(results, form, Head(infos).TagsID)
                      ELSE results)

RECURSIVE findWord(_, _, _, _, _)
RECURSIVE visitEdges(_, _, _, _, _)
findWord(currNodeIdx, currentSuffix, prefix, targetID, results) ==
    visitEdges(EdgeWindow(At(a.nodes, currNodeIdx), a.edges), currentSuffix, prefix,
               targetID,
               IF At(a.nodes, currNodeIdx).IsFinal
               THEN emitPayloads(PayloadWindow(At(a.nodes, currNodeIdx), a.payloads),
                                 prefix \o currentSuffix, targetID, results)
               ELSE results)

\* The edge loop of findWord.
visitEdges(edgeList, currentSuffix, prefix, targetID, results) ==
    IF edgeList = <<>> THEN results
    ELSE visitEdges(Tail(edgeList), currentSuffix, prefix, targetID,
                    findWord(Head(edgeList).NodeID,
                             Append(currentSuffix, Head(edgeList).Char),
                             prefix, targetID, results))

\* Fault: the forms are built from the accumulated suffix alone, the stem is
\* not put in front.
dfsGenerateNoPrefix(nodeIndex, prefix, targetID, results) ==
    findWord(nodeIndex, <<>>, <<>>, targetID, results)

\* The map results after dfsGenerate(nodeIndex, prefix, targetID, results).
dfsGenerate(nodeIndex, prefix, targetID, results) ==
    findWord(nodeIndex, <<>>, prefix, targetID, results)

-----------------------------------------------------------------------------
(* Inflect: paradigm expansion of a dictionary word. *)

\* paradigmsToProcess: ParadigmID -> lemma over the payload window of the
\* word's node, a later entry of the same paradigm overwriting an earlier one.
RECURSIVE collectParadigms(_, _)
collectParadigms(infos, m) ==
    IF infos = <<>> THEN m
    ELSE collectParadigms(Tail(infos),
                          MapPut(m, Head(infos).ParadigmID,
                                 At(a.LemmaPool, Head(infos).LemmaID)))

\* paradigmsToProcess after the second walk of Inflect, w being where it ended.
paradigmsAt(w) ==
    IF w.found
    THEN collectParadigms(PayloadWindow(At(a.nodes, w.node), a.payloads), EmptyMap)
    ELSE EmptyMap

paradigmsToProcess(word) == paradigmsAt(walk(0, ToLower(word), a.nodes, a.edges))

\* Fault: the surface form is passed to newParsed in the place of the lemma.
mergeFormsLemmaAsForm(finalResults, generatedForms, lemma) ==
    [form \in (DOMAIN finalResults) \cup (DOMAIN generatedForms) |->
        IF form \in DOMAIN finalResults THEN finalResults[form]
        ELSE newParsed(form, form, At(a.tagsPool, generatedForms[form]))]

\* Adds the forms of generatedForms that finalResults does not hold yet.
mergeForms(finalResults, generatedForms, lemma) ==
    [form \in (DOMAIN finalResults) \cup (DOMAIN generatedForms) |->
        IF form \in DOMAIN finalResults THEN finalResults[form]
        ELSE newParsed(form, lemma, At(a.tagsPool, generatedForms[form]))]

\* Fault: only the first stem of the paradigm is expanded.
inflectStemsFirstOnly(paradigmInfoSlice, pID, lemma, finalResults) ==
    IF paradigmInfoSlice = <<>> THEN finalResults
    ELSE mergeForms(finalResults,
                    dfsGenerate(Head(paradigmInfoSlice).NodeID,
                                Head(paradigmInfoSlice).Stem, pID, EmptyMap),
                    lemma)

\* The stem loop of Inflect for one paradigm.
RECURSIVE inflectStems(_, _, _, _)
inflectStems(paradigmInfoSlice, pID, lemma, finalResults) ==
    IF paradigmInfoSlice = <<>> THEN finalResults
    ELSE inflectStems(Tail(paradigmInfoSlice), pID, lemma,
                      mergeForms(finalResults,
                                 dfsGenerate(Head(paradigmInfoSlice).NodeID,
                                             Head(paradigmInfoSlice).Stem, pID, EmptyMap),
                                 lemma))

\* The paradigm loop of Inflect, visiting paradigmsToProcess in the given order.
RECURSIVE inflectParadigms(_, _, _)
inflectParadigms(order, toProcess, finalResults) ==
    IF order = <<>> THEN finalResults
    ELSE inflectParadigms(Tail(order), toProcess,
            IF Head(order) \notin DOMAIN a.paradigms THEN finalResults
            ELSE inflectStems(a.paradigms[Head(order)], Head(order),
                              toProcess[Head(order)], finalResults))

\* A slice back to front.
Reverse(s) == [i \in 1..Len(s) |-> s[Len(s) + 1 - i]]

\* The values of a map, in the order of keys.
mapValues(m, keys) == [i \in 1..Len(keys) |-> m[keys[i]]]

\* finalList of Inflect, as range fills it from finalResults.
finalListOf(finalResults) == mapValues(finalResults, SetToSeq(DOMAIN finalResults))

\* Fault: the final list comes out in descending order.
InflectInDescending(word, order) ==
    IF Len(Parse(word)) = 0 THEN <<>>
    ELSE Reverse(SortSlice(finalListOf(inflectParadigms(order, paradigmsToProcess(word),
                                                        EmptyMap)),
                           "word"))

\* Inflect(word) when range visits paradigmsToProcess in the order `order`.
InflectIn(word, order) ==
    IF Len(Parse(word)) = 0 THEN <<>>
    ELSE SortSlice(finalListOf(inflectParadigms(order, paradigmsToProcess(word),
                                                EmptyMap)),
                   "word")

\* Every result Inflect(word) can return.
Inflect(word) ==
    {InflectIn(word, order) : order \in Orders(DOMAIN paradigmsToProcess(word))}

-----------------------------------------------------------------------------
(* The suffix predictor. *)

\* runes[len(runes)-n:]
lastRunes(runes, n) == SubSeq(runes, Len(runes) - n + 1, Len(runes))

\* One candidate per entry of the payload window of the suffix's node.
candidatesOf(window, suffixLen) ==
    [i \in 1..Len(window) |-> PredictionCandidate(window[i], suffixLen)]

\* The candidates of one suffix, w being where the walk over it ended.
candidatesFrom(w, suffixLen) ==
    IF ~w.found THEN <<>>
    ELSE IF ~At(a.predictNodes, w.node).IsFinal THEN <<>>
    ELSE candidatesOf(PayloadWindow(At(a.predictNodes, w.node), a.predictPayloads),
                      suffixLen)

\* The candidates one suffix length contributes.
candidatesAt(runes, suffixLen) ==
    IF suffixLen > Len(runes) THEN <<>>
    ELSE candidatesFrom(walk(0, lastRunes(runes, suffixLen),
                             a.predictNodes, a.predictEdges),
                        suffixLen)

\* The loop over suffixLen = 5, 4, ..., 1.
RECURSIVE collectCandidates(_, _)
collectCandidates(runes, suffixLen) ==
    IF suffixLen < 1 THEN <<>>
    ELSE candidatesAt(runes, suffixLen) \o collectCandidates(runes, suffixLen - 1)

\* The end of findBestPrediction; found = FALSE stands for the nil result.
bestOf(candidates) ==
    IF Len(candidates) = 0 THEN [found |-> FALSE]
    ELSE [found |-> TRUE, best |-> SortSlice(candidates, "candidate")[1]]

findBestPrediction(word) == bestOf(collectCandidates(word, 5))

\* candidates[0] after sort.Slice, for any number of candidates. sort.Slice is
\* not stable: up to 12 elements it runs the insertion sort, which keeps the
\* order of elements neither of which is less than the other; beyond that it
\* runs pdqsort, after which any element that no element is less than may
\* come first.
firstAfterSort(data, by) ==
    IF Len(data) <= 12 THEN {SortSlice(data, by)[1]}
    ELSE {data[i] : i \in {k \in 1..Len(data) :
                               \A j \in 1..Len(data) : ~Less(by, data[j], data[k])}}

\* The end of findBestPrediction on a candidate list of any length: each
\* result the sort can leave.
bestOutcomes(candidates) ==
    IF Len(candidates) = 0 THEN {[found |-> FALSE]}
    ELSE {[found |-> TRUE, best |-> c] : c \in firstAfterSort(candidates, "candidate")}

\* The stem loop shared by getFormsByParadigmID and Predict: every stem writes
\* into the same map.
RECURSIVE generateAllStems(_, _, _)
generateAllStems(paradigmInfoSlice, pID, results) ==
    IF paradigmInfoSlice = <<>> THEN results
    ELSE generateAllStems(Tail(paradigmInfoSlice), pID,
                          dfsGenerate(Head(paradigmInfoSlice).NodeID,
                                      Head(paradigmInfoSlice).Stem, pID, results))

getFormsByParadigmID(pID) ==
    IF pID \notin DOMAIN a.paradigms THEN <<>>
    ELSE SortSlice(SetToSeq(DOMAIN generateAllStems(a.paradigms[pID], pID, EmptyMap)),
                   "string")

\* Fault: the template lemma is appended whole, its prefix is not cut off.
lemmaFromPrefixesWholeLemma(lowerWord, lemmaOfTemplate, oovPrefix, templateWordPrefix) ==
    IF ~HasPrefix(lemmaOfTemplate, templateWordPrefix) THEN lowerWord
    ELSE oovPrefix \o lemmaOfTemplate

\* The lemma of ParsePredicted once both prefixes are cut off.
lemmaFromPrefixes(lowerWord, lemmaOfTemplate, oovPrefix, templateWordPrefix) ==
    IF ~HasPrefix(lemmaOfTemplate, templateWordPrefix) THEN lowerWord
    ELSE oovPrefix \o TrimPrefix(lemmaOfTemplate, templateWordPrefix)

\* Fault: the template word is not tested for the common suffix.
lemmaByTemplateNoSuffixTest(lowerWord, best, wordOfTemplate, lemmaOfTemplate, commonSuffix) ==
    IF Len(wordOfTemplate) < best.SuffixLen THEN lowerWord
    ELSE lemmaFromPrefixes(lowerWord, lemmaOfTemplate,
                           TrimSuffix(lowerWord, commonSuffix),
                           TrimSuffix(wordOfTemplate, commonSuffix))

\* The lemma of ParsePredicted once the template word is known.
lemmaByTemplate(lowerWord, best, wordOfTemplate, lemmaOfTemplate, commonSuffix) ==
    IF Len(wordOfTemplate) < best.SuffixLen THEN lowerWord
    ELSE IF ~HasSuffix(wordOfTemplate, commonSuffix) THEN lowerWord
    ELSE lemmaFromPrefixes(lowerWord, lemmaOfTemplate,
                           TrimSuffix(lowerWord, commonSuffix),
                           TrimSuffix(wordOfTemplate, commonSuffix))

\* predictedLemma of ParsePredicted: lowerWord unless every step succeeds.
predictedLemma(lowerWord, best, allFormsOfTemplate) ==
    IF best.ParadigmID \notin DOMAIN a.paradigmToLemmaID THEN lowerWord
    ELSE IF Len(allFormsOfTemplate) = 0 THEN lowerWord
    ELSE IF best.FormIdx >= Len(allFormsOfTemplate) THEN lowerWord
    ELSE lemmaByTemplate(lowerWord, best, At(allFormsOfTemplate, best.FormIdx),
                         At(a.LemmaPool, a.paradigmToLemmaID[best.ParadigmID]),
                         lastRunes(lowerWord, best.SuffixLen))

\* ParsePredicted after findBestPrediction has returned found.
parsePredictedWith(word, lowerWord, found) ==
    IF ~found.found THEN <<>>
    ELSE << newParsed(word,
                      predictedLemma(lowerWord, found.best,
                                     getFormsByParadigmID(found.best.ParadigmID)),
                      At(a.tagsPool, found.best.TagsID)) >>

ParsePredicted(word) ==
    parsePredictedWith(word, ToLower(word), findBestPrediction(ToLower(word)))

\* Fault: dictPrefix is cut off and inputPrefix is not put in its place.
rewriteFormsEndingOnly(formsAndTags, kept, dictPrefix, inputPrefix, lemma) ==
    [i \in 1..Len(kept) |->
        newParsed(TrimPrefix(kept[i], dictPrefix), lemma,
                  At(a.tagsPool, formsAndTags[kept[i]]))]

\* The kept forms of Predict, rewritten onto the input prefix.
rewriteForms(formsAndTags, kept, dictPrefix, inputPrefix, lemma) ==
    [i \in 1..Len(kept) |->
        newParsed(inputPrefix \o TrimPrefix(kept[i], dictPrefix), lemma,
                  At(a.tagsPool, formsAndTags[kept[i]]))]

\* Fault: every form of the template paradigm is rewritten, also those that
\* do not start with dictPrefix.
predictFormsUnfiltered(formsAndTags, dictPrefix, inputPrefix, lemma) ==
    rewriteForms(formsAndTags, SetToSeq(DOMAIN formsAndTags),
                 dictPrefix, inputPrefix, lemma)

\* The forms of the template paradigm that start with dictPrefix, rewritten.
predictForms(formsAndTags, dictPrefix, inputPrefix, lemma) ==
    rewriteForms(formsAndTags,
                 SetToSeq({f \in DOMAIN formsAndTags : HasPrefix(f, dictPrefix)}),
                 dictPrefix, inputPrefix, lemma)

\* a.paradigms[pID], the nil slice when the key is absent.
paradigmInfoOf(pID) == IF pID \in DOMAIN a.paradigms THEN a.paradigms[pID] ELSE <<>>

\* Fault: the template word is not tested for the common suffix.
predictByTemplateNoSuffixTest(lowerWord, lemma, best, wordOfTemplate, commonSuffix) ==
    IF Len(wordOfTemplate) < best.SuffixLen THEN <<>>
    ELSE SortSlice(predictForms(generateAllStems(paradigmInfoOf(best.ParadigmID),
                                                 best.ParadigmID, EmptyMap),
                                TrimSuffix(wordOfTemplate, commonSuffix),
                                TrimSuffix(lowerWord, commonSuffix), lemma),
                   "word")

\* Predict once the template word is known.
predictByTemplate(lowerWord, lemma, best, wordOfTemplate, commonSuffix) ==
    IF Len(wordOfTemplate) < best.SuffixLen THEN <<>>
    ELSE IF ~HasSuffix(wordOfTemplate, commonSuffix) THEN <<>>
    ELSE SortSlice(predictForms(generateAllStems(paradigmInfoOf(best.ParadigmID),
                                                 best.ParadigmID, EmptyMap),
                                TrimSuffix(wordOfTemplate, commonSuffix),
                                TrimSuffix(lowerWord, commonSuffix), lemma),
                   "word")

\* Predict once the forms of the template paradigm are listed.
predictFromForms(lowerWord, lemma, best, allFormsInParadigm) ==
    IF Len(allFormsInParadigm) = 0 THEN <<>>
    ELSE IF best.FormIdx >= Len(allFormsInParadigm) THEN <<>>
    ELSE predictByTemplate(lowerWord, lemma, best,
                           At(allFormsInParadigm, best.FormIdx),
                           lastRunes(lowerWord, best.SuffixLen))

\* Predict after findBestPrediction has returned found.
predictWith(lowerWord, lemma, found) ==
    IF ~found.found THEN <<>>
    ELSE predictFromForms(lowerWord, lemma, found.best,
                          getFormsByParadigmID(found.best.ParadigmID))

Predict(word, lemma) ==
    predictWith(ToLower(word), lemma, findBestPrediction(ToLower(word)))

-----------------------------------------------------------------------------
(* Analyze: the top-level dispatch.  Every (parses, forms) it can return.  *)

\* Fault: a word nothing is known of is returned as its own parse.
analyzePredictedEchoesWord(word, predictedParses) ==
    IF Len(predictedParses) = 0
    THEN {[parses |-> << newParsed(word, word, "") >>, forms |-> <<>>]}
    ELSE {[parses |-> predictedParses,
           forms |-> Predict(word, predictedParses[1].Lemma)]}

\* The branch of Analyze for a word Parse does not know.
analyzePredicted(word, predictedParses) ==
    IF Len(predictedParses) = 0 THEN {[parses |-> <<>>, forms |-> <<>>]}
    ELSE {[parses |-> predictedParses,
           forms |-> Predict(word, predictedParses[1].Lemma)]}

\* Fault: the predictor is asked first, the dictionary only when it knows
\* nothing.
analyzeWithPredictorFirst(word, parses) ==
    IF Len(ParsePredicted(word)) > 0 THEN analyzePredicted(word, ParsePredicted(word))
    ELSE {[parses |-> parses, forms |-> forms] : forms \in Inflect(word)}

\* Analyze after Parse has returned parses.
analyzeWith(word, parses) ==
    IF Len(parses) > 0
    THEN {[parses |-> parses, forms |-> forms] : forms \in Inflect(word)}
    ELSE analyzePredicted(word, ParsePredicted(word))

Analyze(word) == analyzeWith(word, Parse(word))

-----------------------------------------------------------------------------
(* The dictionary file and the loader.                                     *)

\* unsafe.Sizeof(header): Magic [4]byte padded to 8 bytes, fourteen int64.
HeaderSize == 120

\* unsafe.Sizeof of the fixed-size records.
SizeofFlatNode == 16

SizeofFlatEdge == 8

SizeofMorphInfo == 12

SizeofPredictInfo == 16

\* The six fixed-record regions, in the order loadInternal slices them.
Regions ==
    << "nodes", "edges", "payloads", "predictNodes", "predictEdges", "predictPayloads" >>

sizeofRecord(r) ==
    CASE r \in {"nodes", "predictNodes"} -> SizeofFlatNode
      [] r \in {"edges", "predictEdges"} -> SizeofFlatEdge
      [] r = "payloads" -> SizeofMorphInfo
      [] r = "predictPayloads" -> SizeofPredictInfo

\* The nil *MorphAnalyzer, written as the zero value of the struct; no
\* analyzer the loader builds from the files below has empty arrays.
NilAnalyzer ==
    [LemmaPool |-> <<>>, tagsPool |-> <<>>, paradigms |-> <<>>,
     paradigmToLemmaID |-> <<>>,
     nodes |-> <<>>, edges |-> <<>>, payloads |-> <<>>,
     predictNodes |-> <<>>, predictEdges |-> <<>>, predictPayloads |-> <<>>]

\* Byte length of the region r of a lexicon.
regionBytes(lex, r) == Len(lex[r]) * sizeofRecord(r)

\* Where a file that holds the regions one after the other, behind the header
\* and a complex block of complexLength bytes, has its region number k.
RECURSIVE layoutOffset(_, _, _)
layoutOffset(lex, complexLength, k) ==
    IF k = 1 THEN HeaderSize + complexLength
    ELSE layoutOffset(lex, complexLength, k - 1) + regionBytes(lex, Regions[k - 1])

\* The struct Header: magic, complex block, and per region Offset and Count.
headerOf(lex, complexLength) ==
    [Magic |-> "DAW7",
     ComplexDataOffset |-> HeaderSize,
     ComplexDataLength |-> complexLength,
     Offset |-> [r \in {Regions[k] : k \in 1..6} |->
                    layoutOffset(lex, complexLength,
                                 CHOOSE k \in 1..6 : Regions[k] = r)],
     Count |-> [r \in {Regions[k] : k \in 1..6} |-> Len(lex[r])]]

\* A well-formed dictionary file of a lexicon: what os.Open and mmap.Map meet
\* (exists, mapOK, size), the header, whether the complex block inflates and
\* decodes, the ComplexData it decodes to and, per region, the records that
\* lie in the file from the header's offset on.
DictFileOf(lex) ==
    [exists |-> TRUE, mapOK |-> TRUE,
     size |-> layoutOffset(lex, 64, 6) + regionBytes(lex, "predictPayloads"),
     header |-> headerOf(lex, 64),
     gzipOK |-> TRUE, gobOK |-> TRUE,
     complex |-> [LemmaPool |-> lex.LemmaPool, TagsPool |-> lex.tagsPool,
                  Paradigms |-> lex.paradigms,
                  ParadigmToLemmaID |-> lex.paradigmToLemmaID],
     stored |-> [r \in {Regions[k] : k \in 1..6} |-> lex[r]]]

BuiltFile == DictFileOf(LexiconBuilt)

\* Files the loader cannot open, cannot map, or finds too short, wrongly
\* signed, not inflatable or not decodable.
UnreadableFiles ==
    { [BuiltFile EXCEPT !.exists = FALSE],
      [BuiltFile EXCEPT !.mapOK = FALSE],
      [BuiltFile EXCEPT !.size = HeaderSize - 1],
      [BuiltFile EXCEPT !.header.Magic = "DAW6"],
      [BuiltFile EXCEPT !.gzipOK = FALSE],
      [BuiltFile EXCEPT !.gobOK = FALSE] }

\* Files with a region table that does not fit the file: the complex block
\* or a region ends beyond the end of the file (by far, or by one record), an
\* offset is negative, a count is negative.
MislaidFiles ==
    { [BuiltFile EXCEPT !.header.ComplexDataLength = BuiltFile.size],
      [BuiltFile EXCEPT !.header.Count["nodes"] = 1000],
      [BuiltFile EXCEPT !.header.Offset["edges"] = -SizeofFlatEdge],
      [BuiltFile EXCEPT !.header.Count["payloads"] = -1],
      [BuiltFile EXCEPT !.header.Count["predictPayloads"] =
                            Len(LexiconBuilt.predictPayloads) + 1] }

\* The files found at the dictionary path.
DictFiles == {DictFileOf(lex) : lex \in Lexicons} \cup UnreadableFiles \cup MislaidFiles

\* The bounds check of the slice expression s[lo:hi] on a slice of n bytes.
SliceInBounds(lo, hi, n) == 0 <= lo /\ lo <= hi /\ hi <= n

\* header.XOffset + header.XCount * sizeof(record).
regionEnd(h, r) == h.Offset[r] + h.Count[r] * sizeofRecord(r)

regionInBounds(f, r) == SliceInBounds(f.header.Offset[r], regionEnd(f.header, r), f.size)

\* bytesToSlice over the bytes that start at the first of the given records.
bytesToSlice(records, byteLen, size) ==
    IF byteLen = 0 THEN <<>> ELSE Slice(records, 0, byteLen \div size)

regionSlice(f, r) ==
    bytesToSlice(f.stored[r], regionEnd(f.header, r) - f.header.Offset[r], sizeofRecord(r))

\* The MorphAnalyzer loadInternal fills in.
newAnalyzer(f) ==
    [LemmaPool |-> f.complex.LemmaPool,
     tagsPool |-> f.complex.TagsPool,
     paradigms |-> f.complex.Paradigms,
     paradigmToLemmaID |-> f.complex.ParadigmToLemmaID,
     nodes |-> regionSlice(f, "nodes"),
     edges |-> regionSlice(f, "edges"),
     payloads |-> regionSlice(f, "payloads"),
     predictNodes |-> regionSlice(f, "predictNodes"),
     predictEdges |-> regionSlice(f, "predictEdges"),
     predictPayloads |-> regionSlice(f, "predictPayloads")]

\* Outcomes of loadInternal; mapped: a mapping made by mmap.Map is still in
\* place when control leaves loadInternal.
loadOpenError(err) ==
    [kind |-> "error", err |-> err, analyzer |-> NilAnalyzer, mapped |-> FALSE]

\* _ = mmapFile.Unmap(); return nil, fmt.Errorf(...)
loadError(err) ==
    [kind |-> "error", err |-> err, analyzer |-> NilAnalyzer, mapped |-> FALSE]

\* A slice expression out of range: the runtime panics, no Unmap has run.
loadPanic ==
    [kind |-> "panic", err |-> "slice bounds out of range", analyzer |-> NilAnalyzer,
     mapped |-> TRUE]

loadAnalyzer(f) ==
    [kind |-> "analyzer", err |-> "", analyzer |-> newAnalyzer(f), mapped |-> TRUE]

\* Step 5 and 6: the six slice expressions, then the analyzer.
loadRegions(f) ==
    IF \A k \in 1..6 : regionInBounds(f, Regions[k]) THEN loadAnalyzer(f) ELSE loadPanic

\* Step 4: the complex block is sliced, inflated and decoded.
loadComplex(f) ==
    IF ~SliceInBounds(f.header.ComplexDataOffset,
                      f.header.ComplexDataOffset + f.header.ComplexDataLength, f.size)
    THEN loadPanic
    ELSE IF ~f.gzipOK THEN loadError("gzip")
    ELSE IF ~f.gobOK THEN loadError("gob")
    ELSE loadRegions(f)

\* Step 3: the header is read from the mapping and its signature compared.
\* binary.Read of HeaderSize bytes into the fixed-size struct does not fail.
loadHeader(f) ==
    IF f.size < HeaderSize THEN loadError("header too short")
    ELSE IF f.header.Magic # "DAW7" THEN loadError("bad magic")
    ELSE loadComplex(f)

loadInternal(f) ==
    IF ~f.exists THEN loadOpenError("open")
    ELSE IF ~f.mapOK THEN loadOpenError("mmap")
    ELSE loadHeader(f)

\* LoadMorphAnalyzer on the file at the dictionary path; a file that is not
\* there is reported by os.Stat or by os.Open, as an error either way.
LoadMorphAnalyzer(f) == loadInternal(f)

-----------------------------------------------------------------------------
(* The state machine: single-word calls, and the batch pipeline.           *)

Workers == 1..NumWorkers

\* All word lists of at most MaxWords words.
WordLists == UNION {[1..n -> ListWords] : n \in 0..MaxWords}

NoCall ==
    [op |-> "none", word |-> <<>>, lemma |-> <<>>, words |-> <<>>,
     parses |-> <<>>, forms |-> <<>>, arrival |-> <<>>,
     file |-> <<>>, outcome |-> "", err |-> "", after |-> "",
     candidates |-> <<>>, best |-> [found |-> FALSE],
     tagString |-> <<>>, fields |-> <<>>]

Init ==
    /\ a = NilAnalyzer
    /\ mapped = FALSE
    /\ phase = "idle"
    /\ last = NoCall
    /\ bop = "none"
    /\ words = <<>>
    /\ di = 0
    /\ dpc = "idle"
    /\ chunksCh = <<>>
    /\ chunksClosed = FALSE
    /\ resultCh = <<>>
    /\ resultClosed = FALSE
    /\ wpc = [w \in Workers |-> "idle"]
    /\ wbuf = [w \in Workers |-> <<>>]
    /\ wg = 0
    /\ allParsed = <<>>

\* Fault: a query reorders the tag pool in place.
receiverReordered == a' = [a EXCEPT !.tagsPool = Reverse(@)]

\* The receiver of the query methods is only read: no method assigns to a
\* field of the analyzer or to an element of its pools, maps and arrays.
receiverOnlyRead == a' = a

\* The assignment morphAnalyzer, _ = analyzer.LoadMorphAnalyzer(): the error is
\* dropped and the pointer is nil after a failed load; a panic of the loader
\* ends the process before the assignment.
createWith(f, r) ==
    /\ a' = IF r.kind = "panic" THEN a ELSE r.analyzer
    /\ mapped' = (mapped \/ r.mapped)
    /\ phase' = IF r.kind = "panic" THEN "crashed" ELSE "idle"
    /\ last' = [NoCall EXCEPT !.op = "CreateAnalyzer", !.file = f,
                              !.outcome = r.kind, !.err = r.err]

CreateAnalyzer ==
    /\ phase = "idle"
    /\ \E f \in DictFiles : createWith(f, LoadMorphAnalyzer(f))
    /\ UNCHANGED batchVars

\* Fault: the pointer is kept.
releasePointerKept(an) == an

\* morphAnalyzer = nil.
releasePointer(an) == NilAnalyzer

\* ReleaseAnalyzer of the binding: the pointer is dropped; neither the binding
\* nor the analyzer has a call that unmaps the file.
ReleaseAnalyzer ==
    /\ phase = "idle"
    /\ a' = releasePointer(a)
    /\ last' = [NoCall EXCEPT !.op = "ReleaseAnalyzer",
                              !.outcome = IF a = NilAnalyzer THEN "nil" ELSE "released"]
    /\ UNCHANGED <<mapped, phase, batchVars>>

\* morphAnalyzer.Analyze(goWord) on the nil pointer: Parse reads a.nodes, the
\* runtime panics with a nil pointer dereference and the process ends.
analyzeWordOnNil(word) ==
    /\ last' = [NoCall EXCEPT !.op = "AnalyzeWord", !.word = word, !.after = last.op,
                              !.outcome = "panic", !.err = "nil pointer dereference"]
    /\ phase' = "crashed"

\* The returned string is the JSON of the parses, a blank, the JSON of the forms.
analyzeWordOn(word) ==
    /\ \E r \in Analyze(word) :
          last' = [NoCall EXCEPT !.op = "AnalyzeWord", !.word = word, !.after = last.op,
                                 !.outcome = "ok",
                                 !.parses = r.parses, !.forms = r.forms]
    /\ phase' = "idle"

AnalyzeWord ==
    /\ phase = "idle"
    /\ \E word \in QueryWords :
          IF a = NilAnalyzer THEN analyzeWordOnNil(word) ELSE analyzeWordOn(word)
    /\ receiverOnlyRead
    /\ UNCHANGED <<mapped, batchVars>>

CallParse ==
    /\ phase = "idle" /\ a # NilAnalyzer
    /\ \E word \in QueryWords :
          last' = [NoCall EXCEPT !.op = "Parse", !.word = word, !.parses = Parse(word)]
    /\ receiverOnlyRead
    /\ UNCHANGED <<mapped, phase, batchVars>>

CallInflect ==
    /\ phase = "idle" /\ a # NilAnalyzer
    /\ \E word \in QueryWords : \E forms \in Inflect(word) :
          last' = [NoCall EXCEPT !.op = "Inflect", !.word = word, !.forms = forms]
    /\ receiverOnlyRead
    /\ UNCHANGED <<mapped, phase, batchVars>>

CallParsePredicted ==
    /\ phase = "idle" /\ a # NilAnalyzer
    /\ \E word \in QueryWords :
          last' = [NoCall EXCEPT !.op = "ParsePredicted", !.word = word,
                                 !.parses = ParsePredicted(word)]
    /\ receiverOnlyRead
    /\ UNCHANGED <<mapped, phase, batchVars>>

CallPredict ==
    /\ phase = "idle" /\ a # NilAnalyzer
    /\ \E word \in QueryWords : \E lemma \in QueryLemmas :
          last' = [NoCall EXCEPT !.op = "Predict", !.word = word, !.lemma = lemma,
                                 !.forms = Predict(word, lemma)]
    /\ receiverOnlyRead
    /\ UNCHANGED <<mapped, phase, batchVars>>

CallAnalyze ==
    /\ phase = "idle" /\ a # NilAnalyzer
    /\ \E word \in QueryWords : \E r \in Analyze(word) :
          last' = [NoCall EXCEPT !.op = "Analyze", !.word = word,
                                 !.parses = r.parses, !.forms = r.forms]
    /\ receiverOnlyRead
    /\ UNCHANGED <<mapped, phase, batchVars>>

\* Fault: one worker per chunk, at most NumCPU of them.
numWorkersByChunks(ws) == Min(NumWorkers, (Len(ws) + ChunkSize - 1) \div ChunkSize)

\* numWorkers := runtime.NumCPU(), whatever the word list.
numWorkers(ws) == NumWorkers

\* The goroutines the worker loop starts: i < numWorkers.
startedWorkers(ws, n) == [w \in Workers |-> IF w <= n THEN "recv" ELSE "idle"]

\* ParseList / InflectList up to the point where the goroutines are started:
\* the channels are made, wg.Add(numWorkers) has run.
StartList(op) ==
    /\ phase = "idle" /\ a # NilAnalyzer
    /\ \E ws \in WordLists :
          /\ words' = ws
          /\ wpc' = startedWorkers(ws, numWorkers(ws))
          /\ wg' = numWorkers(ws)
    /\ phase' = "batch"
    /\ last' = NoCall
    /\ bop' = op
    /\ di' = 0
    /\ dpc' = "run"
    /\ chunksCh' = <<>>
    /\ chunksClosed' = FALSE
    /\ resultCh' = <<>>
    /\ resultClosed' = FALSE
    /\ wbuf' = [w \in Workers |-> <<>>]
    /\ allParsed' = <<>>
    /\ UNCHANGED <<a, mapped>>

StartParseList == StartList("ParseList")

StartInflectList == StartList("InflectList")

\* Fault: the end of the chunk is one short, the last word of a chunk is lost.
chunkAtShort(ws, i) == Slice(ws, i, Min(i + ChunkSize, Len(ws)) - 1)

\* The chunk the dispatcher cuts at index i: words[i:end].
chunkAt(ws, i) == Slice(ws, i, Min(i + ChunkSize, Len(ws)))

\* Dispatcher: chunksCh <- words[i:end], blocking while the channel is full.
DispatchSend ==
    /\ phase = "batch" /\ dpc = "run"
    /\ di < Len(words)
    /\ Len(chunksCh) < NumWorkers
    /\ chunksCh' = Append(chunksCh, chunkAt(words, di))
    /\ di' = di + ChunkSize
    /\ UNCHANGED <<a, mapped, phase, last, bop, words, dpc, chunksClosed, resultCh,
                   resultClosed, wpc, wbuf, wg, allParsed>>

\* Fault: the dispatcher returns without close(chunksCh).
DispatchCloseOmitted ==
    /\ phase = "batch" /\ dpc = "run"
    /\ di >= Len(words)
    /\ dpc' = "done"
    /\ UNCHANGED <<a, mapped, phase, last, bop, words, di, chunksCh, chunksClosed,
                   resultCh, resultClosed, wpc, wbuf, wg, allParsed>>

\* Dispatcher: close(chunksCh) after the loop.
DispatchClose ==
    /\ phase = "batch" /\ dpc = "run"
    /\ di >= Len(words)
    /\ chunksClosed' = TRUE
    /\ dpc' = "done"
    /\ UNCHANGED <<a, mapped, phase, last, bop, words, di, chunksCh, resultCh,
                   resultClosed, wpc, wbuf, wg, allParsed>>

\* What one word adds to parsedChunk: the parses (ParseList) or the forms
\* (InflectList) component of Analyze(word).
wordResults(op, word) ==
    {IF op = "ParseList" THEN r.parses ELSE r.forms : r \in Analyze(word)}

\* Every parsedChunk the worker's loop over a chunk can build.
RECURSIVE chunkResults(_, _)
chunkResults(op, chunk) ==
    IF chunk = <<>> THEN {<<>>}
    ELSE {first \o rest : first \in wordResults(op, Head(chunk)),
                          rest \in chunkResults(op, Tail(chunk))}

\* Fault: the worker analyzes the chunk at the head of chunksCh and leaves
\* it there, so that a chunk is taken more than once.
WorkerRecvLeavesChunk(w) ==
    /\ phase = "batch" /\ wpc[w] = "recv"
    /\ Len(chunksCh) > 0
    /\ \E parsedChunk \in chunkResults(bop, Head(chunksCh)) :
          wbuf' = [wbuf EXCEPT ![w] = parsedChunk]
    /\ wpc' = [wpc EXCEPT ![w] = "send"]
    /\ UNCHANGED <<a, mapped, phase, last, bop, words, di, dpc, chunksCh, chunksClosed,
                   resultCh, resultClosed, wg, allParsed>>

\* Worker: receives a chunk from chunksCh and analyzes its words.
WorkerRecv(w) ==
    /\ phase = "batch" /\ wpc[w] = "recv"
    /\ Len(chunksCh) > 0
    /\ \E parsedChunk \in chunkResults(bop, Head(chunksCh)) :
          wbuf' = [wbuf EXCEPT ![w] = parsedChunk]
    /\ chunksCh' = Tail(chunksCh)
    /\ wpc' = [wpc EXCEPT ![w] = "send"]
    /\ receiverOnlyRead
    /\ UNCHANGED <<mapped, phase, last, bop, words, di, dpc, chunksClosed, resultCh,
                   resultClosed, wg, allParsed>>

\* Worker: resultCh <- parsedChunk, blocking while the channel is full.
WorkerSend(w) ==
    /\ phase = "batch" /\ wpc[w] = "send"
    /\ Len(resultCh) < NumWorkers
    /\ resultCh' = Append(resultCh, wbuf[w])
    /\ wbuf' = [wbuf EXCEPT ![w] = <<>>]
    /\ wpc' = [wpc EXCEPT ![w] = "recv"]
    /\ UNCHANGED <<a, mapped, phase, last, bop, words, di, dpc, chunksCh, chunksClosed,
                   resultClosed, wg, allParsed>>

\* Worker: the range over chunksCh ends (closed and drained); wg.Done().
WorkerExit(w) ==
    /\ phase = "batch" /\ wpc[w] = "recv"
    /\ Len(chunksCh) = 0 /\ chunksClosed
    /\ wpc' = [wpc EXCEPT ![w] = "done"]
    /\ wg' = wg - 1
    /\ UNCHANGED <<a, mapped, phase, last, bop, words, di, dpc, chunksCh, chunksClosed,
                   resultCh, resultClosed, wbuf, allParsed>>

\* The closer goroutine: wg.Wait(); close(resultCh).
CloseResults ==
    /\ phase = "batch" /\ ~resultClosed
    /\ wg = 0
    /\ resultClosed' = TRUE
    /\ UNCHANGED <<a, mapped, phase, last, bop, words, di, dpc, chunksCh, chunksClosed,
                   resultCh, wpc, wbuf, wg, allParsed>>

\* Collector: one iteration of the range over resultCh.
Collect ==
    /\ phase = "batch"
    /\ Len(resultCh) > 0
    /\ allParsed' = allParsed \o Head(resultCh)
    /\ resultCh' = Tail(resultCh)
    /\ UNCHANGED <<a, mapped, phase, last, bop, words, di, dpc, chunksCh, chunksClosed,
                   resultClosed, wpc, wbuf, wg>>

\* Fault: the final sort is left out.
sortAllParsedNone(all) == all

\* The final sort.Slice of ParseList / InflectList.
sortAllParsed(all) == SortSlice(all, "word")

\* Collector: the range ends (resultCh closed and drained); sort and return.
ReturnList ==
    /\ phase = "batch"
    /\ Len(resultCh) = 0 /\ resultClosed
    /\ last' = [NoCall EXCEPT !.op = bop, !.words = words, !.arrival = allParsed,
                              !.parses = IF bop = "ParseList"
                                         THEN sortAllParsed(allParsed) ELSE <<>>,
                              !.forms = IF bop = "InflectList"
                                        THEN sortAllParsed(allParsed) ELSE <<>>]
    /\ phase' = "idle"
    /\ bop' = "none"
    /\ words' = <<>>
    /\ di' = 0
    /\ dpc' = "idle"
    /\ chunksClosed' = FALSE
    /\ resultClosed' = FALSE
    /\ wpc' = [w \in Workers |-> "idle"]
    /\ allParsed' = <<>>
    /\ UNCHANGED <<a, mapped, chunksCh, resultCh, wbuf, wg>>

Next ==
    \/ CreateAnalyzer
    \/ ReleaseAnalyzer
    \/ AnalyzeWord
    \/ CallParse
    \/ CallInflect
    \/ CallParsePredicted
    \/ CallPredict
    \/ CallAnalyze
    \/ StartParseList
    \/ StartInflectList
    \/ DispatchSend
    \/ DispatchClose
    \/ \E w \in Workers : WorkerRecv(w)
    \/ \E w \in Workers : WorkerSend(w)
    \/ \E w \in Workers : WorkerExit(w)
    \/ CloseResults
    \/ Collect
    \/ ReturnList

Spec == Init /\ [][Next]_vars

-----------------------------------------------------------------------------
(* The ranking of findBestPrediction on its own, over candidate lists longer *)
(* than the lexicons above give.                                            *)

\* The i-th candidate of a list whose first long entries come from the
\* suffix of length 2 and the others from the suffix of length 1; the
\* entries at the positions in frequent have Frequency 2, the others 1.
\* FormIdx tells the entries apart.
candidateNo(i, long, frequent) ==
    PredictionCandidate(PredictInfo(IF i \in frequent THEN 2 ELSE 1, 1, i - 1, 0),
                        IF i <= long THEN 2 ELSE 1)

\* Candidate lists as the suffix loop collects them, longer suffix first,
\* with at most two rules of Frequency 2.
candidateList(n, long, frequent) == [i \in 1..n |-> candidateNo(i, long, frequent)]

\* Candidate lists as the suffix loop collects them, longer suffix first,
\* with at most two rules of Frequency 2.
CandidateLists ==
    UNION {{candidateList(n, long, frequent) :
               long \in 0..n,
               frequent \in {f \in SUBSET (1..n) : Cardinality(f) <= 2}} :
           n \in 0..MaxCandidates}

\* The suffix loop of findBestPrediction has collected its candidates.
RankInit ==
    /\ a = NilAnalyzer
    /\ mapped = FALSE
    /\ phase = "idle"
    /\ last \in {[NoCall EXCEPT !.op = "candidates", !.candidates = c] :
                    c \in CandidateLists}
    /\ bop = "none"
    /\ words = <<>>
    /\ di = 0
    /\ dpc = "idle"
    /\ chunksCh = <<>>
    /\ chunksClosed = FALSE
    /\ resultCh = <<>>
    /\ resultClosed = FALSE
    /\ wpc = [w \in Workers |-> "idle"]
    /\ wbuf = [w \in Workers |-> <<>>]
    /\ wg = 0
    /\ allParsed = <<>>

\* The rest of findBestPrediction: the sort, and candidates[0] or nil.
RankCandidates ==
    /\ last.op = "candidates"
    /\ \E r \in bestOutcomes(last.candidates) :
          last' = [last EXCEPT !.op = "findBestPrediction", !.best = r]
    /\ UNCHANGED <<a, mapped, phase, batchVars>>

RankNext == RankCandidates

RankSpec == RankInit /\ [][RankNext]_vars

-----------------------------------------------------------------------------
(* Tag decomposition: the fields newParsed fills from the tag string.       *)
(*                                                                         *)
(* A tag string is a sequence of characters; a grammeme of a vocabulary is  *)
(* written as one letter, so that a token of several letters is in no       *)
(* vocabulary. Each vocabulary is cut down to one or two of its grammemes:  *)
(*   N, V  noun, verb            a  animate         p  perfective          *)
(*   n, g  nominative, genitive  m, f  masculine, feminine                 *)
(*   i  imperative   s  singular   1  first person   t  past               *)
(*   r  transitive   c  active     x  a grammeme of no vocabulary          *)

Comma == ","

posTags == {<<"N">>, <<"V">>}

animacyTags == {<<"a">>}

aspectTags == {<<"p">>}

caseTags == {<<"n">>, <<"g">>}

genderTags == {<<"m">>, <<"f">>}

moodTags == {<<"i">>}

numberTags == {<<"s">>}

personTags == {<<"1">>}

tenseTags == {<<"t">>}

transTags == {<<"r">>}

voiceTags == {<<"c">>}

\* The characters tag strings are made of.
TagAlphabet ==
    {Comma, "x"} \cup
    {g[1] : g \in posTags \cup animacyTags \cup aspectTags \cup caseTags \cup genderTags
                  \cup moodTags \cup numberTags \cup personTags \cup tenseTags
                  \cup transTags \cup voiceTags}

\* All tag strings of at most MaxTagLen characters.
TagStrings == UNION {[1..n -> TagAlphabet] : n \in 0..MaxTagLen}

\* strings.Split(s, ","), cur being the token read so far: a token ends at
\* each comma and at the end of the string, so the empty string gives one
\* empty token.
RECURSIVE splitFrom(_, _)
splitFrom(s, cur) ==
    IF s = <<>> THEN <<cur>>
    ELSE IF Head(s) = Comma THEN <<cur>> \o splitFrom(Tail(s), <<>>)
    ELSE splitFrom(Tail(s), Append(cur, Head(s)))

Split(s) == splitFrom(s, <<>>)

\* The fields of &Parsed{..., OtherTags: make(GrammemeSet)} besides Word,
\* Lemma and Tags: empty strings and an empty set.
NoFields ==
    [PartOfSpeech |-> <<>>, Animacy |-> <<>>, Aspect |-> <<>>, Case |-> <<>>,
     Gender |-> <<>>, Mood |-> <<>>, Number |-> <<>>, Person |-> <<>>,
     Tense |-> <<>>, Transitivity |-> <<>>, Voice |-> <<>>, OtherTags |-> {}]

\* The part of speech: grammemes[0] if posTags holds it.
partOfSpeechOf(grammemes) ==
    IF Len(grammemes) > 0 /\ grammemes[1] \in posTags THEN grammemes[1] ELSE <<>>

\* The second half of the switch: mood to voice, then the default.
dispatchLate(p, g) ==
    IF g \in moodTags THEN [p EXCEPT !.Mood = g]
    ELSE IF g \in numberTags THEN [p EXCEPT !.Number = g]
    ELSE IF g \in personTags THEN [p EXCEPT !.Person = g]
    ELSE IF g \in tenseTags THEN [p EXCEPT !.Tense = g]
    ELSE IF g \in transTags THEN [p EXCEPT !.Transitivity = g]
    ELSE IF g \in voiceTags THEN [p EXCEPT !.Voice = g]
    ELSE [p EXCEPT !.OtherTags = @ \cup {g}]

\* The switch on one grammeme: the first case that holds is taken. The first
\* case compares with p.PartOfSpeech, which is the empty string when the
\* first token is no part of speech.
dispatch(p, g) ==
    IF g = p.PartOfSpeech THEN p
    ELSE IF g \in animacyTags THEN [p EXCEPT !.Animacy = g]
    ELSE IF g \in aspectTags THEN [p EXCEPT !.Aspect = g]
    ELSE IF g \in caseTags THEN [p EXCEPT !.Case = g]
    ELSE IF g \in genderTags THEN [p EXCEPT !.Gender = g]
    ELSE dispatchLate(p, g)

\* The loop over the grammemes.
RECURSIVE dispatchAll(_, _)
dispatchAll(p, grammemes) ==
    IF grammemes = <<>> THEN p
    ELSE dispatchAll(dispatch(p, Head(grammemes)), Tail(grammemes))

\* The fields newParsed fills from the grammemes of the tag string.
fieldsOf(grammemes) ==
    dispatchAll([NoFields EXCEPT !.PartOfSpeech = partOfSpeechOf(grammemes)], grammemes)

\* newParsed(word, lemma, tagString), its decomposed fields.
newParsedFields(tagString) == fieldsOf(Split(tagString))

\* newParsed is about to be called with a tag string.
TagInit ==
    /\ a = NilAnalyzer
    /\ mapped = FALSE
    /\ phase = "idle"
    /\ last \in {[NoCall EXCEPT !.op = "tagString", !.tagString = t] : t \in TagStrings}
    /\ bop = "none"
    /\ words = <<>>
    /\ di = 0
    /\ dpc = "idle"
    /\ chunksCh = <<>>
    /\ chunksClosed = FALSE
    /\ resultCh = <<>>
    /\ resultClosed = FALSE
    /\ wpc = [w \in Workers |-> "idle"]
    /\ wbuf = [w \in Workers |-> <<>>]
    /\ wg = 0
    /\ allParsed = <<>>

\* newParsed has run.
DecomposeTags ==
    /\ last.op = "tagString"
    /\ last' = [last EXCEPT !.op = "newParsed", !.fields = newParsedFields(last.tagString)]
    /\ UNCHANGED <<a, mapped, phase, batchVars>>

TagNext == DecomposeTags

TagSpec == TagInit /\ [][TagNext]_vars

\* The batch pipeline alone: ParseList and InflectList called, one call after
\* the other, on an analyzer that was loaded from one of the lexicons.
PipelineInit ==
    /\ a \in {newAnalyzer(DictFileOf(lex)) : lex \in Lexicons}
    /\ mapped = TRUE
    /\ phase = "idle"
    /\ last = NoCall
    /\ bop = "none"
    /\ words = <<>>
    /\ di = 0
    /\ dpc = "idle"
    /\ chunksCh = <<>>
    /\ chunksClosed = FALSE
    /\ resultCh = <<>>
    /\ resultClosed = FALSE
    /\ wpc = [w \in Workers |-> "idle"]
    /\ wbuf = [w \in Workers |-> <<>>]
    /\ wg = 0
    /\ allParsed = <<>>

PipelineNext ==
    \/ StartParseList
    \/ StartInflectList
    \/ DispatchSend
    \/ DispatchClose
    \/ \E w \in Workers : WorkerRecv(w)
    \/ \E w \in Workers : WorkerSend(w)
    \/ \E w \in Workers : WorkerExit(w)
    \/ CloseResults
    \/ Collect
    \/ ReturnList

PipelineSpec == PipelineInit /\ [][PipelineNext]_vars

\* What the goroutines of a batch call synchronise on: the positions of the
\* dispatcher and of the workers, the two channels, the WaitGroup.
ctl == <<phase, di, dpc, chunksCh, chunksClosed, resultCh, resultClosed, wpc, wg>>

\* WorkerRecv(w) as far as ctl goes: the receive, whatever the analysis of
\* the chunk yields.
WorkerRecvCtl(w) ==
    /\ phase = "batch" /\ wpc[w] = "recv"
    /\ Len(chunksCh) > 0
    /\ chunksCh' = Tail(chunksCh)
    /\ wpc' = [wpc EXCEPT ![w] = "send"]
    /\ UNCHANGED <<phase, di, dpc, chunksClosed, resultCh, resultClosed, wg>>

\* ReturnList as far as ctl goes: the return, whatever slice is returned.
ReturnListCtl ==
    /\ phase = "batch"
    /\ Len(resultCh) = 0 /\ resultClosed
    /\ phase' = "idle"
    /\ di' = 0
    /\ dpc' = "idle"
    /\ chunksClosed' = FALSE
    /\ resultClosed' = FALSE
    /\ wpc' = [w \in Workers |-> "idle"]
    /\ UNCHANGED <<chunksCh, resultCh, wg>>

\* A step of one of the goroutines of a batch call, seen on ctl. Every such
\* step changes ctl, and it can be taken exactly when the goroutine is not
\* blocked: the analysis of a chunk and the final sort always yield a result.
BatchStep ==
    \/ DispatchSend
    \/ DispatchClose
    \/ \E w \in Workers : WorkerRecvCtl(w)
    \/ \E w \in Workers : WorkerSend(w)
    \/ \E w \in Workers : WorkerExit(w)
    \/ CloseResults
    \/ Collect
    \/ ReturnListCtl

\* The Go scheduler runs a goroutine whenever one can run: while a batch
\* call has a goroutine that is not blocked, one of them takes a step.
\* Nothing is assumed about which one.
LiveSpec == Spec /\ WF_ctl(BatchStep)

-----------------------------------------------------------------------------
(* Vocabulary of the properties. *)

\* A sequence as a multiset: element -> number of occurrences.
BagOf(seq) ==
    [x \in {seq[i] : i \in DOMAIN seq} |-> Cardinality({i \in DOMAIN seq : seq[i] = x})]

RECURSIVE Concat(_)
Concat(seqs) == IF seqs = <<>> THEN <<>> ELSE Head(seqs) \o Concat(Tail(seqs))

UpperRune(c) == IF c >= 97 /\ c <= 122 THEN c - 32 ELSE c

ToUpper(s) == [i \in 1..Len(s) |-> UpperRune(s[i])]

\* s <= t in the order of Go strings.
StrLeq(s, t) == ~StrLess(t, s)

SortedByWord(list) ==
    \A i \in 1..(Len(list) - 1) : StrLeq(list[i].Word, list[i + 1].Word)

BatchOps == {"ParseList", "InflectList"}

\* The slice a batch call returned.
Returned == IF last.op = "ParseList" THEN last.parses ELSE last.forms

\* A parse without its surface word.
LemmaTags(p) == [Lemma |-> p.Lemma, Tags |-> p.Tags]

IsDictionaryWord(word) == Len(Parse(word)) > 0

\* The node the main DAWG reaches along the lower-cased word.
TerminalNode(word) == At(a.nodes, walk(0, ToLower(word), a.nodes, a.edges).node)

\* The distinct ParadigmIDs in the payload window of a dictionary word.
ParadigmsOf(word) ==
    LET window == PayloadWindow(TerminalNode(word), a.payloads)
    IN {window[i].ParadigmID : i \in 1..Len(window)}

\* The map dfs_generate yields from the k-th stem of paradigm pID.
FormsFromStem(pID, k) ==
    dfsGenerate(a.paradigms[pID][k].NodeID, a.paradigms[pID][k].Stem, pID, EmptyMap)

StemsOf(pID) == IF pID \in DOMAIN a.paradigms THEN DOMAIN a.paradigms[pID] ELSE {}

\* The surface forms of paradigm pID, over all its stems.
FormsOfParadigm(pID) == UNION {DOMAIN FormsFromStem(pID, k) : k \in StemsOf(pID)}

\* The invariants the data model lists for a lexicon.
WindowsInRange(nodes, edges, payloads) ==
    \A n \in 1..Len(nodes) :
        /\ nodes[n].PayloadIdx + nodes[n].PayloadLen <= Len(payloads)
        /\ nodes[n].EdgesIdx + nodes[n].EdgesLen <= Len(edges)
        /\ \A i \in 1..(nodes[n].EdgesLen - 1) :
              At(edges, nodes[n].EdgesIdx + i - 1).Char < At(edges, nodes[n].EdgesIdx + i).Char

EdgesInRange(nodes, edges) == \A e \in 1..Len(edges) : edges[e].NodeID < Len(nodes)

DataModelInvariants ==
    /\ EdgesInRange(a.nodes, a.edges)
    /\ EdgesInRange(a.predictNodes, a.predictEdges)
    /\ WindowsInRange(a.nodes, a.edges, a.payloads)
    /\ WindowsInRange(a.predictNodes, a.predictEdges, a.predictPayloads)
    /\ \A i \in 1..Len(a.payloads) :
          /\ a.payloads[i].LemmaID < Len(a.LemmaPool)
          /\ a.payloads[i].TagsID < Len(a.tagsPool)
          /\ a.payloads[i].ParadigmID \in DOMAIN a.paradigms
          /\ Len(a.paradigms[a.payloads[i].ParadigmID]) > 0
    /\ \A pID \in DOMAIN a.paradigms : \A k \in DOMAIN a.paradigms[pID] :
          LET w == walk(0, a.paradigms[pID][k].Stem, a.nodes, a.edges)
          IN w.found /\ w.node = a.paradigms[pID][k].NodeID
    /\ \A i \in 1..Len(a.predictPayloads) :
          /\ a.predictPayloads[i].TagsID < Len(a.tagsPool)
          /\ a.predictPayloads[i].ParadigmID \in DOMAIN a.paradigmToLemmaID
          /\ a.predictPayloads[i].FormIdx
                < Len(getFormsByParadigmID(a.predictPayloads[i].ParadigmID))

-----------------------------------------------------------------------------
(* C1: ParseList against the sequential single-word calls. *)

\* Parse on each word of the list, in order, concatenated.
ParseEach(ws) == Concat([i \in 1..Len(ws) |-> Parse(ws[i])])

\* The parses component of Analyze on each word, in order, concatenated:
\* Parse(w) for a word of the main DAWG, ParsePredicted(w) for any other.
AnalyzeParsesEach(ws) ==
    Concat([i \in 1..Len(ws) |->
              IF IsDictionaryWord(ws[i]) THEN Parse(ws[i]) ELSE ParsePredicted(ws[i])])

\* C1 (as claimed): ParseList(words) holds, as a multiset, exactly the parses
\* that Parse returns for each word of the list - also for words that are
\* absent from the main DAWG.
C1_ParseListIsParseEach ==
    last.op = "ParseList" => BagOf(last.parses) = BagOf(ParseEach(last.words))

\* C1 (amended): ParseList(words) holds, as a multiset, exactly the parses
\* component of Analyze for each word of the list: Parse(w) for a dictionary
\* word and ParsePredicted(w) for a word absent from the main DAWG, under
\* every interleaving of dispatcher, workers and collector.
C1_ParseListIsAnalyzeParsesEach ==
    last.op = "ParseList" => BagOf(last.parses) = BagOf(AnalyzeParsesEach(last.words))

\* A ParseList call over several chunks that returned the predicted parse of a
\* word absent from the main DAWG next to dictionary parses.
C1_Witness ==
    /\ last.op = "ParseList"
    /\ Len(last.words) > ChunkSize
    /\ \E i \in DOMAIN last.words : IsDictionaryWord(last.words[i])
    /\ \E i \in DOMAIN last.words :
          /\ ~IsDictionaryWord(last.words[i])
          /\ \E j \in DOMAIN last.parses : last.parses[j].Word = last.words[i]

-----------------------------------------------------------------------------
(* C2: the returned slice of a batch call is sorted. *)

\* C2: the slice returned by ParseList and by InflectList is sorted ascending
\* by Word, for every word list and every interleaving.
C2_BatchResultSorted ==
    last.op \in BatchOps => SortedByWord(Returned)

\* A batch call whose results arrived at the collector out of order.
C2_Witness ==
    /\ last.op \in BatchOps
    /\ Len(last.arrival) >= 3
    /\ ~SortedByWord(last.arrival)
    /\ Returned # last.arrival

-----------------------------------------------------------------------------
(* C3: the returned slice does not depend on the schedule. *)

\* The per-word results of a list whose words each have a single outcome.
InOrderResults(op, ws) ==
    Concat([i \in 1..Len(ws) |-> CHOOSE r \in wordResults(op, ws[i]) : TRUE])

\* C3 (as claimed): for a fixed lexicon and word list every schedule returns
\* the same sequence - the one returned when the chunk results reach the
\* collector in dispatch order - including the relative position of entries
\* with equal Word.  Stated for lists whose words have one outcome each.
C3_ScheduleNotObservable ==
    (/\ last.op \in BatchOps
     /\ \A i \in DOMAIN last.words : Cardinality(wordResults(last.op, last.words[i])) = 1)
    => Returned = sortAllParsed(InOrderResults(last.op, last.words))

-----------------------------------------------------------------------------
(* C4: Parse against the payload window of the node the word spells. *)

\* The node paths of the main DAWG that spell the word, edge by edge.
PathsSpelling(chars) ==
    {path \in [0..Len(chars) -> 0..(Len(a.nodes) - 1)] :
        /\ path[0] = 0
        /\ \A i \in 1..Len(chars) :
              \E e \in 1..Len(EdgeWindow(At(a.nodes, path[i - 1]), a.edges)) :
                 /\ EdgeWindow(At(a.nodes, path[i - 1]), a.edges)[e].Char = chars[i]
                 /\ EdgeWindow(At(a.nodes, path[i - 1]), a.edges)[e].NodeID = path[i]}

\* C4: Parse(word) is empty when the lower-cased word spells no path from the
\* root or ends at a node that is not final; otherwise it is, in payload
\* order, one (word, LemmaPool[LemmaID], TagsPool[TagsID]) per entry of the
\* payload window of that node.
C4_ParseIsPayloadWindow ==
    last.op = "Parse" =>
        LET chars == ToLower(last.word)
            paths == PathsSpelling(chars)
        IN IF paths = {} \/ \E path \in paths : ~At(a.nodes, path[Len(chars)]).IsFinal
           THEN last.parses = <<>>
           ELSE \A path \in paths :
                  LET node == At(a.nodes, path[Len(chars)])
                  IN /\ Len(last.parses) = node.PayloadLen
                     /\ \A i \in 1..node.PayloadLen :
                           LET info == At(a.payloads, node.PayloadIdx + i - 1)
                           IN last.parses[i] =
                                [Word |-> last.word,
                                 Lemma |-> At(a.LemmaPool, info.LemmaID),
                                 Tags |-> At(a.tagsPool, info.TagsID)]

\* Parse of an ambiguous word: several payload entries, in payload order.
C4_Witness ==
    /\ last.op = "Parse"
    /\ Len(last.parses) >= 3
    /\ last.parses[1].Lemma # last.parses[3].Lemma

-----------------------------------------------------------------------------
(* C5: Parse and letter case. *)

\* C5 (as claimed): for a dictionary word w, Parse(w), Parse(lower(w)) and
\* Parse(upper(w)) are equal as multisets of parses, the surface word of each
\* parse included.
C5_ParseCaseInsensitive ==
    (last.op = "Parse" /\ Len(last.parses) > 0) =>
        /\ BagOf(last.parses) = BagOf(Parse(ToLower(last.word)))
        /\ BagOf(last.parses) = BagOf(Parse(ToUpper(last.word)))

\* C5 (amended): for a dictionary word w, Parse(w), Parse(lower(w)) and
\* Parse(upper(w)) are equal as multisets of (lemma, tags); the surface word
\* of every parse is the word as it was passed in.
C5_ParseCaseInsensitiveUpToWord ==
    (last.op = "Parse" /\ Len(last.parses) > 0) =>
        LET lemmaTags(ps) == BagOf([i \in 1..Len(ps) |-> LemmaTags(ps[i])])
        IN /\ lemmaTags(last.parses) = lemmaTags(Parse(ToLower(last.word)))
           /\ lemmaTags(last.parses) = lemmaTags(Parse(ToUpper(last.word)))
           /\ \A i \in 1..Len(last.parses) : last.parses[i].Word = last.word
           /\ \A i \in 1..Len(Parse(ToUpper(last.word))) :
                 Parse(ToUpper(last.word))[i].Word = ToUpper(last.word)

\* Parse of a dictionary word written in mixed case.
C5_Witness ==
    /\ last.op = "Parse"
    /\ Len(last.parses) > 0
    /\ last.word # ToLower(last.word)
    /\ last.word # ToUpper(last.word)

-----------------------------------------------------------------------------
(* C6: Inflect of a dictionary word is non-empty and sorted. *)

\* The word lies below a stem of one of the paradigms of its payload window:
\* dfs_generate from that stem emits it.
StemsCoverWord(word) ==
    \E pID \in ParadigmsOf(word) : ToLower(word) \in FormsOfParadigm(pID)

\* C6 (as claimed): for every dictionary word w of a lexicon that satisfies
\* the data-model invariants, Inflect(w) is non-empty and sorted ascending by
\* surface form.
C6_InflectNonEmptySorted ==
    (last.op = "Inflect" /\ IsDictionaryWord(last.word) /\ DataModelInvariants) =>
        Len(last.forms) > 0 /\ SortedByWord(last.forms)

\* C6 (amended): for every dictionary word w of a lexicon that satisfies the
\* data-model invariants and in which w lies below a stem of one of the
\* paradigms of its payload window, Inflect(w) is non-empty and sorted
\* ascending by surface form.
C6_InflectNonEmptySortedWhenCovered ==
    (/\ last.op = "Inflect" /\ IsDictionaryWord(last.word)
     /\ DataModelInvariants /\ StemsCoverWord(last.word)) =>
        Len(last.forms) > 0 /\ SortedByWord(last.forms)

\* Inflect of a covered dictionary word that returned several forms.
C6_Witness ==
    /\ last.op = "Inflect" /\ IsDictionaryWord(last.word)
    /\ DataModelInvariants /\ StemsCoverWord(last.word)
    /\ Len(last.forms) >= 2

-----------------------------------------------------------------------------
(* C7: the forms of Inflect are those of every stem of every paradigm. *)

\* C7: for a dictionary word w the set of surface forms in Inflect(w) is the
\* union, over the distinct ParadigmIDs of w's payload window and over every
\* stem of each such paradigm, of the forms dfs_generate emits from it.
C7_InflectFormsAreUnionOverStems ==
    (last.op = "Inflect" /\ IsDictionaryWord(last.word)) =>
        {last.forms[i].Word : i \in 1..Len(last.forms)}
            = UNION {FormsOfParadigm(pID) : pID \in ParadigmsOf(last.word)}

\* Inflect of a suppletive form returned a form of a stem that the queried
\* word does not start with.
C7_Witness ==
    /\ last.op = "Inflect"
    /\ \E pID \in ParadigmsOf(last.word) : \E k \in StemsOf(pID) :
          /\ ~HasPrefix(ToLower(last.word), a.paradigms[pID][k].Stem)
          /\ \E i \in 1..Len(last.forms) :
                last.forms[i].Word \in DOMAIN FormsFromStem(pID, k)

-----------------------------------------------------------------------------
(* C8: duplicate surface forms across the paradigms of the queried word. *)

\* C8 (as claimed): a surface form that several paradigms of the queried word
\* generate has one entry per paradigm, each with its paradigm's lemma.
C8_DuplicateFormsKeptPerParadigm ==
    (last.op = "Inflect" /\ IsDictionaryWord(last.word)) =>
        \A pID \in ParadigmsOf(last.word) : \A form \in FormsOfParadigm(pID) :
            \E i \in 1..Len(last.forms) :
                /\ last.forms[i].Word = form
                /\ last.forms[i].Lemma = paradigmsToProcess(last.word)[pID]

\* C8 (amended): de-duplication by surface form spans all paradigms of the
\* queried word: the result holds exactly one entry per surface form, and it
\* carries the lemma and tags of one of the paradigms that generate the form.
C8_OneEntryPerForm ==
    (last.op = "Inflect" /\ IsDictionaryWord(last.word)) =>
        \A pID \in ParadigmsOf(last.word) : \A form \in FormsOfParadigm(pID) :
            /\ Cardinality({i \in 1..Len(last.forms) : last.forms[i].Word = form}) = 1
            /\ \E i \in 1..Len(last.forms) :
                  \E qID \in ParadigmsOf(last.word) : \E k \in StemsOf(qID) :
                     /\ form \in DOMAIN FormsFromStem(qID, k)
                     /\ last.forms[i] =
                           [Word |-> form,
                            Lemma |-> paradigmsToProcess(last.word)[qID],
                            Tags |-> At(a.tagsPool, FormsFromStem(qID, k)[form])]

\* Inflect of a word two of whose paradigms generate the same surface form.
C8_Witness ==
    /\ last.op = "Inflect"
    /\ Len(last.forms) > 0
    /\ \E pID \in ParadigmsOf(last.word) : \E qID \in ParadigmsOf(last.word) :
          pID # qID /\ FormsOfParadigm(pID) \cap FormsOfParadigm(qID) # {}

-----------------------------------------------------------------------------
(* C9: single-word queries are deterministic. *)

\* C9 (as claimed): for a fixed lexicon and word, Inflect returns the same
\* list whatever order its paradigm map is visited in.
C9_InflectDeterministic ==
    last.op = "Inflect" => Inflect(last.word) = {last.forms}

-----------------------------------------------------------------------------
(* C10: round trip between paradigm expansion and lookup. *)

\* C10: for every paradigm and every (form, tagsID) that dfs_generate emits
\* from a stem of it, Parse(form) holds a parse with the paradigm's lemma and
\* TagsPool[tagsID].
C10_GeneratedFormsParseBack ==
    last.op = "Parse" =>
        \A pID \in DOMAIN a.paradigms : \A k \in StemsOf(pID) :
            last.word \in DOMAIN FormsFromStem(pID, k) =>
                \E i \in 1..Len(last.parses) :
                    /\ last.parses[i].Lemma = At(a.LemmaPool, a.paradigmToLemmaID[pID])
                    /\ last.parses[i].Tags = At(a.tagsPool, FormsFromStem(pID, k)[last.word])

\* Parse of a form that dfs_generate emits below the anchor node of a stem.
C10_Witness ==
    /\ last.op = "Parse"
    /\ \E pID \in DOMAIN a.paradigms : \E k \in StemsOf(pID) :
          /\ last.word \in DOMAIN FormsFromStem(pID, k)
          /\ Len(a.paradigms[pID][k].Stem) < Len(last.word)
          /\ Len(last.parses) > 0

-----------------------------------------------------------------------------
(* C11: the choice of the prediction rule. *)

\* The node paths of the prediction DAWG that spell chars from the root.
PredictPathsSpelling(chars) ==
    {path \in [0..Len(chars) -> 0..(Len(a.predictNodes) - 1)] :
        /\ path[0] = 0
        /\ \A i \in 1..Len(chars) :
              \E e \in 1..Len(EdgeWindow(At(a.predictNodes, path[i - 1]), a.predictEdges)) :
                 /\ EdgeWindow(At(a.predictNodes, path[i - 1]), a.predictEdges)[e].Char
                       = chars[i]
                 /\ EdgeWindow(At(a.predictNodes, path[i - 1]), a.predictEdges)[e].NodeID
                       = path[i]}

\* The rules the suffix of k characters hits: the payload entries of the final
\* nodes that the suffix spells a path to.
RulesHit(runes, k) ==
    UNION {{At(a.predictPayloads, At(a.predictNodes, path[k]).PayloadIdx + i - 1) :
               i \in 1..At(a.predictNodes, path[k]).PayloadLen} :
           path \in {q \in PredictPathsSpelling(SubSeq(runes, Len(runes) - k + 1, Len(runes))) :
                        At(a.predictNodes, q[k]).IsFinal}}

\* The suffix lengths that are probed and hit a rule.
HitLengths(runes) == {k \in 1..Min(5, Len(runes)) : RulesHit(runes, k) # {}}

SetMax(S) == CHOOSE x \in S : \A y \in S : y <= x

\* C11: findBestPrediction(word) returns None iff no suffix of k characters,
\* k in 1..min(5, |word|), spells a path of the prediction DAWG from the root
\* to a final node with a non-empty payload window; otherwise the candidate it
\* returns has the largest k that hits and, among the payload entries at that
\* k, a maximal Frequency.  Checked on the lower-cased word of every
\* ParsePredicted call, whose result is empty iff None is returned and else
\* carries the tags of the candidate.
C11_BestPredictionLongestThenFrequent ==
    last.op = "ParsePredicted" =>
        /\ findBestPrediction(ToLower(last.word)).found
              <=> HitLengths(ToLower(last.word)) # {}
        /\ Len(last.parses) > 0 <=> HitLengths(ToLower(last.word)) # {}
        /\ HitLengths(ToLower(last.word)) # {} =>
              /\ findBestPrediction(ToLower(last.word)).best.SuffixLen
                    = SetMax(HitLengths(ToLower(last.word)))
              /\ \E rule \in RulesHit(ToLower(last.word),
                                      SetMax(HitLengths(ToLower(last.word)))) :
                    /\ findBestPrediction(ToLower(last.word)).best
                          = PredictionCandidate(rule, SetMax(HitLengths(ToLower(last.word))))
                    /\ last.parses[1].Tags = At(a.tagsPool, rule.TagsID)
              /\ \A rule \in RulesHit(ToLower(last.word),
                                      SetMax(HitLengths(ToLower(last.word)))) :
                    rule.Frequency
                       <= findBestPrediction(ToLower(last.word)).best.Frequency

\* ParsePredicted of a word of more than five characters: its last five
\* characters hit nothing, its last two and its last one both hit, and a rule
\* of the shorter suffix is more frequent than the one returned.
C11_Witness ==
    /\ last.op = "ParsePredicted"
    /\ Len(last.word) > 5
    /\ Len(last.parses) = 1
    /\ RulesHit(ToLower(last.word), 5) = {}
    /\ Cardinality(HitLengths(ToLower(last.word))) >= 2
    /\ \E rule \in RulesHit(ToLower(last.word), 1) :
          rule.Frequency > findBestPrediction(ToLower(last.word)).best.Frequency

-----------------------------------------------------------------------------
(* C12, C13: the lemma ParsePredicted derives by analogy, and its fallback. *)

\* The strictly ascending list of the strings of a finite set.
AscendingList(S) ==
    CHOOSE list \in [1..Cardinality(S) -> S] :
        \A i \in 1..(Cardinality(S) - 1) : StrLess(list[i], list[i + 1])

\* The canonical form list of a paradigm: its unique surface forms, ascending.
CanonicalForms(pID) == AscendingList(FormsOfParadigm(pID))

\* The rule findBestPrediction returns for the word.
BestRule(word) == findBestPrediction(ToLower(word))

TemplateWord(best) == At(CanonicalForms(best.ParadigmID), best.FormIdx)

TemplateLemma(best) == At(a.LemmaPool, a.paradigmToLemmaID[best.ParadigmID])

\* The last SuffixLen characters of w.
CommonSuffix(w, best) == SubSeq(w, Len(w) - best.SuffixLen + 1, Len(w))

\* The checks against the template word: FormIdx is in the range of the
\* canonical form list, the template word is at least SuffixLen characters
\* long and ends with the common suffix of w.
TemplateWordFits(w, best) ==
    /\ best.FormIdx < Len(CanonicalForms(best.ParadigmID))
    /\ Len(TemplateWord(best)) >= best.SuffixLen
    /\ HasSuffix(TemplateWord(best), CommonSuffix(w, best))

\* The checks against the template word pass and the paradigm has a lemma.
TemplateFits(w, best) ==
    /\ best.ParadigmID \in DOMAIN a.paradigmToLemmaID
    /\ TemplateWordFits(w, best)

\* The template lemma starts with the template prefix.
LemmaFits(w, best) ==
    HasPrefix(TemplateLemma(best), TrimSuffix(TemplateWord(best), CommonSuffix(w, best)))

\* oovPrefix + lemmaEnding, computed on w.
AnalogyLemma(w, best) ==
    TrimSuffix(w, CommonSuffix(w, best))
        \o TrimPrefix(TemplateLemma(best),
                      TrimSuffix(TemplateWord(best), CommonSuffix(w, best)))

\* C12 (as claimed): when a rule is found and all compatibility checks pass on
\* the word, ParsePredicted returns the one parse (word, oovPrefix +
\* lemmaEnding, TagsPool[best.TagsID]), oovPrefix being the word without the
\* common suffix.
C12_PredictedLemmaFromWord ==
    (/\ last.op = "ParsePredicted"
     /\ BestRule(last.word).found
     /\ TemplateFits(last.word, BestRule(last.word).best)
     /\ LemmaFits(last.word, BestRule(last.word).best)) =>
        last.parses =
            << [Word |-> last.word,
                Lemma |-> AnalogyLemma(last.word, BestRule(last.word).best),
                Tags |-> At(a.tagsPool, BestRule(last.word).best.TagsID)] >>

\* C12 (amended): when a rule is found and all compatibility checks pass on
\* the lower-cased word, ParsePredicted returns the one parse whose surface
\* word is the word as passed, whose lemma is oovPrefix + lemmaEnding with
\* oovPrefix the lower-cased word without the common suffix, and whose tags
\* are TagsPool[best.TagsID].
C12_PredictedLemmaFromLowerWord ==
    (/\ last.op = "ParsePredicted"
     /\ BestRule(last.word).found
     /\ TemplateFits(ToLower(last.word), BestRule(last.word).best)
     /\ LemmaFits(ToLower(last.word), BestRule(last.word).best)) =>
        last.parses =
            << [Word |-> last.word,
                Lemma |-> AnalogyLemma(ToLower(last.word), BestRule(last.word).best),
                Tags |-> At(a.tagsPool, BestRule(last.word).best.TagsID)] >>

\* ParsePredicted of a word with a capital letter that passes all checks and
\* gets a lemma other than its own spelling.
C12_Witness ==
    /\ last.op = "ParsePredicted"
    /\ last.word # ToLower(last.word)
    /\ BestRule(last.word).found
    /\ TemplateFits(ToLower(last.word), BestRule(last.word).best)
    /\ LemmaFits(ToLower(last.word), BestRule(last.word).best)
    /\ Len(last.parses) = 1
    /\ last.parses[1].Lemma # ToLower(last.word)

\* A rule is found for the word, and a compatibility check fails.
FallsBack(word) ==
    /\ BestRule(word).found
    /\ ~(/\ TemplateFits(ToLower(word), BestRule(word).best)
         /\ LemmaFits(ToLower(word), BestRule(word).best))

\* C13 (as claimed): when a rule is found but a compatibility check fails,
\* ParsePredicted(w) returns exactly one parse whose lemma equals the input
\* word w.
C13_FallbackLemmaIsInputWord ==
    (last.op = "ParsePredicted" /\ FallsBack(last.word)) =>
        /\ Len(last.parses) = 1
        /\ last.parses[1].Lemma = last.word

\* C13 (amended): when a rule is found but a compatibility check fails,
\* ParsePredicted(w) returns exactly one parse: its surface word is w as
\* passed, its lemma is the lower-cased w, its tags are TagsPool[best.TagsID].
C13_FallbackLemmaIsLowerWord ==
    (last.op = "ParsePredicted" /\ FallsBack(last.word)) =>
        last.parses =
            << [Word |-> last.word,
                Lemma |-> ToLower(last.word),
                Tags |-> At(a.tagsPool, BestRule(last.word).best.TagsID)] >>

\* ParsePredicted of a word with a capital letter whose template fits but is
\* suppletive: the template lemma does not start with the template prefix.
C13_Witness ==
    /\ last.op = "ParsePredicted"
    /\ last.word # ToLower(last.word)
    /\ BestRule(last.word).found
    /\ TemplateFits(ToLower(last.word), BestRule(last.word).best)
    /\ ~LemmaFits(ToLower(last.word), BestRule(last.word).best)
    /\ Len(last.parses) = 1

-----------------------------------------------------------------------------
(* C14: Predict where ParsePredicted falls back. *)

\* C14 (as claimed): in every case where ParsePredicted falls back to the
\* word as lemma - out-of-range FormIdx, a template word that does not end
\* with the common suffix, a suppletive template - Predict returns an empty
\* form list.
C14_PredictEmptyWheneverFallback ==
    (last.op = "Predict" /\ FallsBack(last.word)) => last.forms = <<>>

\* C14 (amended): Predict returns an empty form list when a check against the
\* template word fails (FormIdx out of range or empty form list, template
\* word shorter than SuffixLen, template word not ending with the common
\* suffix); when these pass and only the template lemma does not fit (a
\* suppletive template), ParsePredicted falls back to the word as lemma but
\* Predict still returns a non-empty form list.
C14_PredictEmptyIffTemplateWordUnfit ==
    (last.op = "Predict" /\ BestRule(last.word).found) =>
        /\ ~TemplateWordFits(ToLower(last.word), BestRule(last.word).best)
              => last.forms = <<>>
        /\ (/\ TemplateWordFits(ToLower(last.word), BestRule(last.word).best)
            /\ FallsBack(last.word))
              => Len(last.forms) > 0

\* Predict of a word whose template is suppletive: the checks against the
\* template word pass, the template lemma does not start with the template
\* prefix, and forms are returned.
C14_Witness ==
    /\ last.op = "Predict"
    /\ FallsBack(last.word)
    /\ TemplateWordFits(ToLower(last.word), BestRule(last.word).best)
    /\ ~LemmaFits(ToLower(last.word), BestRule(last.word).best)
    /\ Len(last.forms) > 0

-----------------------------------------------------------------------------
(* C15: the forms Predict derives from the template paradigm. *)

\* The TagsIDs the main DAWG records for a form within a paradigm.
TagsOfForm(pID, form) ==
    UNION {{At(a.payloads, At(a.nodes, path[Len(form)]).PayloadIdx + i - 1).TagsID :
               i \in {j \in 1..At(a.nodes, path[Len(form)]).PayloadLen :
                        At(a.payloads, At(a.nodes, path[Len(form)]).PayloadIdx + j - 1).ParadigmID
                           = pID}} :
           path \in {q \in PathsSpelling(form) : At(a.nodes, q[Len(form)]).IsFinal}}

\* dictPrefix: the template word without the common suffix.
DictPrefix(w, best) == TrimSuffix(TemplateWord(best), CommonSuffix(w, best))

\* The forms of the template paradigm that start with dictPrefix.
KeptForms(w, best) ==
    {f \in FormsOfParadigm(best.ParadigmID) : HasPrefix(f, DictPrefix(w, best))}

\* C15: when the checks against the template word pass (on the lower-cased
\* word), Predict(word, lemma) returns, ascending by surface form, exactly one
\* entry per form dictForm of the template paradigm that starts with
\* dictPrefix: (inputPrefix + dictForm without dictPrefix, lemma, TagsPool of
\* a TagsID recorded for dictForm); forms that do not start with dictPrefix
\* contribute nothing, and every entry carries the given lemma unchanged.
C15_PredictRewritesKeptForms ==
    (/\ last.op = "Predict"
     /\ BestRule(last.word).found
     /\ TemplateWordFits(ToLower(last.word), BestRule(last.word).best)) =>
        LET w == ToLower(last.word)
            best == BestRule(last.word).best
            inputPrefix == TrimSuffix(w, CommonSuffix(w, best))
        IN /\ SortedByWord(last.forms)
           /\ Len(last.forms) = Cardinality(KeptForms(w, best))
           /\ \A i \in 1..Len(last.forms) : last.forms[i].Lemma = last.lemma
           /\ \A f \in KeptForms(w, best) :
                 \E i \in 1..Len(last.forms) : \E t \in TagsOfForm(best.ParadigmID, f) :
                    last.forms[i] =
                        [Word |-> inputPrefix \o TrimPrefix(f, DictPrefix(w, best)),
                         Lemma |-> last.lemma,
                         Tags |-> At(a.tagsPool, t)]

\* Predict that passed its checks, with a template paradigm some of whose
\* forms do not start with dictPrefix, for a lemma other than the word.
C15_Witness ==
    /\ last.op = "Predict"
    /\ BestRule(last.word).found
    /\ TemplateWordFits(ToLower(last.word), BestRule(last.word).best)
    /\ KeptForms(ToLower(last.word), BestRule(last.word).best)
          # FormsOfParadigm(BestRule(last.word).best.ParadigmID)
    /\ Len(last.forms) > 0
    /\ last.lemma # ToLower(last.word)

-----------------------------------------------------------------------------
(* C16: the dispatch of Analyze. *)

\* C16: if Parse(word) is non-empty, Analyze(word) returns Parse(word) with a
\* result of Inflect(word), whatever the predictor would say of the word;
\* otherwise, if ParsePredicted(word) is empty, it returns (empty, empty);
\* otherwise it returns ParsePredicted(word) with
\* Predict(word, ParsePredicted(word)[0].Lemma).
C16_AnalyzeDispatch ==
    last.op = "Analyze" =>
        IF Len(Parse(last.word)) > 0
        THEN last.parses = Parse(last.word) /\ last.forms \in Inflect(last.word)
        ELSE IF Len(ParsePredicted(last.word)) = 0
        THEN last.parses = <<>> /\ last.forms = <<>>
        ELSE /\ last.parses = ParsePredicted(last.word)
             /\ last.forms = Predict(last.word, ParsePredicted(last.word)[1].Lemma)

\* Analyze of a dictionary word that the predictor has a rule for as well: the
\* dictionary parses are returned, not the predicted one.
C16_Witness ==
    /\ last.op = "Analyze"
    /\ Len(Parse(last.word)) > 0
    /\ Len(ParsePredicted(last.word)) > 0
    /\ last.parses # ParsePredicted(last.word)
    /\ Len(last.forms) > 0

-----------------------------------------------------------------------------
(* C17: the empty word. *)

SingleWordOps == {"Parse", "Inflect", "ParsePredicted", "Predict", "Analyze"}

\* C17 (as claimed): for the empty word every query operation returns an
\* empty result, on every lexicon the loader accepts.
C17_EmptyWordEmptyResult ==
    (last.op \in SingleWordOps /\ last.word = <<>>) =>
        last.parses = <<>> /\ last.forms = <<>>

\* C17 (amended): for the empty word ParsePredicted and Predict return an
\* empty result on every lexicon; Parse, Inflect and Analyze return an empty
\* result on every lexicon whose root node is not final, and on a lexicon
\* whose root is final Parse returns one parse per entry of the root's
\* payload window.
C17_EmptyWordEmptyUnlessRootFinal ==
    (last.op \in SingleWordOps /\ last.word = <<>>) =>
        /\ last.op \in {"ParsePredicted", "Predict"} =>
              last.parses = <<>> /\ last.forms = <<>>
        /\ ~At(a.nodes, 0).IsFinal => last.parses = <<>> /\ last.forms = <<>>
        /\ (At(a.nodes, 0).IsFinal /\ last.op \in {"Parse", "Analyze"}) =>
              Len(last.parses) = At(a.nodes, 0).PayloadLen

\* Analyze of the empty word on a lexicon whose root is not final.
C17_Witness ==
    /\ last.op = "Analyze"
    /\ last.word = <<>>
    /\ ~At(a.nodes, 0).IsFinal
    /\ last.parses = <<>> /\ last.forms = <<>>

-----------------------------------------------------------------------------
(* C18: a file whose region table does not fit the file. *)

\* The loader gets as far as the region table: the file opens, maps, holds a
\* whole header and is signed DAW7.
ReachesRegionTable(f) ==
    f.exists /\ f.mapOK /\ f.size >= HeaderSize /\ f.header.Magic = "DAW7"

\* The range an offset and a byte length give lies inside a file of n bytes.
RangeInFile(offset, length, n) == offset >= 0 /\ length >= 0 /\ offset + length <= n

\* The complex block and each of the six regions, taken as count records of
\* the region's record size from the header's offset on, lie inside the file.
RegionTableConsistent(f) ==
    /\ RangeInFile(f.header.ComplexDataOffset, f.header.ComplexDataLength, f.size)
    /\ \A k \in 1..6 :
          /\ f.header.Count[Regions[k]] >= 0
          /\ RangeInFile(f.header.Offset[Regions[k]],
                         f.header.Count[Regions[k]] * sizeofRecord(Regions[k]), f.size)

\* C18 (as claimed): a load that reaches a region table which does not fit
\* the mapped file (an offset or a count negative, or offset + count x
\* sizeof(record) beyond the end of the file, for a region or for the complex
\* block) ends with an error: no analyzer is returned and the process does
\* not crash.
C18_InconsistentRegionTableRefused ==
    (/\ last.op = "CreateAnalyzer"
     /\ ReachesRegionTable(last.file)
     /\ ~RegionTableConsistent(last.file))
    => (last.outcome = "error" /\ phase # "crashed")

-----------------------------------------------------------------------------
(* C19: what ReleaseAnalyzer leaves of the mapping. *)

\* C19 (as claimed): in the state reached when ReleaseAnalyzer has run on a
\* loaded analyzer, the process no longer holds the memory mapping the load
\* created.
C19_ReleaseUnmaps ==
    (last.op = "ReleaseAnalyzer" /\ last.outcome = "released") => ~mapped

-----------------------------------------------------------------------------
(* C20: a query after ReleaseAnalyzer. *)

\* C20: in every sequence of CreateAnalyzer, AnalyzeWord and ReleaseAnalyzer
\* calls, an AnalyzeWord call that follows ReleaseAnalyzer (with no
\* CreateAnalyzer in between) panics: the process ends, and the call returns
\* no parses and no forms.
C20_QueryAfterReleasePanics ==
    (last.op = "AnalyzeWord" /\ last.after = "ReleaseAnalyzer") =>
        /\ last.outcome = "panic"
        /\ phase = "crashed"
        /\ last.parses = <<>> /\ last.forms = <<>>

\* AnalyzeWord of a dictionary word right after the release of an analyzer
\* that had been loaded (its mapping is still there): the call panicked.
C20_Witness ==
    /\ last.op = "AnalyzeWord"
    /\ last.after = "ReleaseAnalyzer"
    /\ last.word = <<97, 98>>
    /\ mapped
    /\ last.outcome = "panic"

-----------------------------------------------------------------------------
(* C21: the queries leave the analyzer as it is. *)

QueryOps == SingleWordOps \cup {"ParseList", "InflectList", "AnalyzeWord"}

\* A step of a query: a single-word call, AnalyzeWord, or a step of a batch
\* call from its start to its return.
QueryStep == phase = "batch" \/ phase' = "batch" \/ last'.op \in QueryOps

\* C21: no step of Parse, Inflect, ParsePredicted, Predict, Analyze, and no
\* step of ParseList / InflectList (dispatcher, worker, closer or collector)
\* changes LemmaPool, tagsPool, paradigms, paradigmToLemmaID or one of the six
\* node, edge and payload arrays.
C21_QueriesLeaveAnalyzerUnchanged == [][QueryStep => a' = a]_vars

\* An InflectList call over several chunks has returned forms, on a loaded
\* analyzer.
C21_Witness ==
    /\ last.op = "InflectList"
    /\ Len(last.words) > ChunkSize
    /\ last.forms # <<>>
    /\ a \in Lexicons

-----------------------------------------------------------------------------
(* C22: the batch calls terminate. *)

\* The dispatcher is blocked on a full chunksCh with chunks left to send.
DispatcherBlocked ==
    phase = "batch" /\ dpc = "run" /\ di < Len(words) /\ Len(chunksCh) = NumWorkers

\* C22: under a scheduler that runs some goroutine whenever one can run,
\* every ParseList / InflectList call returns, for the empty list and for
\* lists of more chunks than workers and channel slots alike; resultCh is
\* closed only when every worker has exited, the dispatcher has sent every
\* chunk and closed chunksCh, and no chunk is left in it; the collector
\* returns only when resultCh is closed and drained.
C22_BatchTerminates ==
    /\ [](resultClosed =>
             /\ \A w \in Workers : wpc[w] = "done"
             /\ dpc = "done" /\ chunksClosed /\ di >= Len(words)
             /\ chunksCh = <<>>)
    /\ [][(phase = "batch" /\ phase' = "idle") =>
             (resultClosed /\ resultCh = <<>>)]_vars
    /\ (phase = "batch" ~> phase = "idle")

\* A call over more chunks than there are workers, its dispatcher blocked on
\* the full channel of chunks.
C22_Witness ==
    /\ DispatcherBlocked
    /\ Len(words) > NumWorkers * ChunkSize

-----------------------------------------------------------------------------
(* C23: the size of the worker pool. *)

\* The number of chunks a word list is cut into.
ChunkCount(ws) == (Len(ws) + ChunkSize - 1) \div ChunkSize

\* The workers a batch call has started.
Started == {w \in Workers : wpc[w] # "idle"}

\* C23 (as claimed): a batch call runs min(NumCPU, chunk count) workers: none
\* for the empty list, one for a list of a single chunk.
C23_PoolSizeIsMinOfCpusAndChunks ==
    phase = "batch" => Cardinality(Started) = Min(NumWorkers, ChunkCount(words))

\* C23 (amended): a batch call runs NumCPU workers whatever the word list,
\* also for the empty list and for lists of fewer chunks than NumCPU; the
\* WaitGroup counts the workers that have not exited.
C23_PoolSizeIsNumCPU ==
    phase = "batch" =>
        /\ Started = Workers
        /\ wg = Cardinality({w \in Workers : wpc[w] # "done"})

\* A batch call over fewer chunks than NumCPU (the empty list, a single
\* chunk) with every worker started and waiting for a chunk.
C23_Witness ==
    /\ phase = "batch"
    /\ ChunkCount(words) < NumWorkers
    /\ Cardinality({w \in Workers : wpc[w] = "recv"}) = NumWorkers

-----------------------------------------------------------------------------
(* C24: candidates that tie on SuffixLen and Frequency. *)

\* The positions of the candidates that no candidate is ranked before.
TopRanked(cands) ==
    {i \in 1..Len(cands) : \A j \in 1..Len(cands) : ~LessCandidate(cands[j], cands[i])}

\* The top-ranked candidate that was inserted first.
FirstInserted(cands) ==
    cands[CHOOSE i \in TopRanked(cands) : \A j \in TopRanked(cands) : i <= j]

\* C24 (as claimed): of the candidates that tie on SuffixLen and Frequency at
\* the top of the ranking, findBestPrediction returns the one inserted
\* first, however many candidates there are.
C24_TieGoesToFirstInserted ==
    (last.op = "findBestPrediction" /\ last.best.found) =>
        last.best.best = FirstInserted(last.candidates)

-----------------------------------------------------------------------------
(* C25: what dfsGenerate yields from an anchor node. *)

\* Every node reachable from node n of the main DAWG, with the labels of the
\* edge path that leads to it.
RECURSIVE Reach(_)
Reach(n) ==
    {[labels |-> <<>>, node |-> n]} \cup
    UNION {{[labels |-> <<EdgeWindow(At(a.nodes, n), a.edges)[e].Char>> \o r.labels,
             node |-> r.node] :
               r \in Reach(EdgeWindow(At(a.nodes, n), a.edges)[e].NodeID)} :
           e \in 1..Len(EdgeWindow(At(a.nodes, n), a.edges))}

\* The positions in the payload window of node n of the entries of paradigm pID.
Matching(n, pID) ==
    {i \in 1..Len(PayloadWindow(At(a.nodes, n), a.payloads)) :
        PayloadWindow(At(a.nodes, n), a.payloads)[i].ParadigmID = pID}

\* The reachable final nodes that hold an entry of paradigm pID.
Hits(anchor, pID) ==
    {r \in Reach(anchor) : At(a.nodes, r.node).IsFinal /\ Matching(r.node, pID) # {}}

\* The pairs (form, TagsID) of a result map.
PairsOf(results) == {<<form, results[form]>> : form \in DOMAIN results}

AnchorNodes == 0..(Len(a.nodes) - 1)

AnchorStems == {<<>>, <<97>>, <<99>>}

TargetIDs == 1..4

\* The pairs (form, TagsID) of every entry of paradigm pID of every final
\* node reachable from the anchor.
EntryPairs(anchor, stem, pID) ==
    UNION {{<<stem \o r.labels,
              PayloadWindow(At(a.nodes, r.node), a.payloads)[i].TagsID>> :
                i \in Matching(r.node, pID)} : r \in Hits(anchor, pID)}

\* The TagsID of the last entry of paradigm pID in the payload window of node n.
LastMatchingTags(n, pID) ==
    PayloadWindow(At(a.nodes, n), a.payloads)
        [CHOOSE i \in Matching(n, pID) : \A j \in Matching(n, pID) : j <= i].TagsID

\* One pair per reachable final node that holds an entry of paradigm pID.
LastEntryPairs(anchor, stem, pID) ==
    {<<stem \o r.labels, LastMatchingTags(r.node, pID)>> : r \in Hits(anchor, pID)}

\* C25 (as claimed): dfsGenerate from any anchor node yields exactly the
\* pairs (stem + path labels, TagsID) of every entry of paradigm pID in the
\* payload window of every reachable final node, one pair per matching entry
\* also when several entries of one node match.
C25_DfsGenerateYieldsEveryEntry ==
    last.op = "Inflect" =>
        \A anchor \in AnchorNodes : \A stem \in AnchorStems : \A pID \in TargetIDs :
            PairsOf(dfsGenerate(anchor, stem, pID, EmptyMap))
                = EntryPairs(anchor, stem, pID)

\* C25 (amended): dfsGenerate from any anchor node yields one pair per
\* reachable final node that holds an entry of paradigm pID: the form is the
\* stem followed by the path labels and the TagsID is that of the node's last
\* matching entry; it yields nothing else.
C25_DfsGenerateYieldsLastEntryPerForm ==
    last.op = "Inflect" =>
        \A anchor \in AnchorNodes : \A stem \in AnchorStems : \A pID \in TargetIDs :
            PairsOf(dfsGenerate(anchor, stem, pID, EmptyMap))
                = LastEntryPairs(anchor, stem, pID)

\* C25 witness: an Inflect call on a lexicon where a final node below an
\* anchor holds two entries of one paradigm with different TagsIDs, and a
\* further final node is reached over more than one edge.
C25_Witness ==
    /\ last.op = "Inflect"
    /\ \E anchor \in AnchorNodes : \E pID \in TargetIDs :
          /\ \E r \in Hits(anchor, pID) :
                /\ Cardinality(Matching(r.node, pID)) > 1
                /\ Cardinality(EntryPairs(r.node, <<>>, pID)) > 1
          /\ \E r \in Hits(anchor, pID) : Len(r.labels) > 1
          /\ PairsOf(dfsGenerate(anchor, <<97>>, pID, EmptyMap)) # {}

-----------------------------------------------------------------------------
(* C26: every occurrence of a word of the list is analyzed exactly once. *)

\* One outcome of Analyze per occurrence of a word, in list order: the parses
\* (ParseList) or the forms (InflectList) components, concatenated.
RECURSIVE AnalyzeEach(_, _)
AnalyzeEach(op, ws) ==
    IF ws = <<>> THEN {<<>>}
    ELSE {first \o rest :
            first \in {IF op = "ParseList" THEN r.parses ELSE r.forms :
                         r \in Analyze(Head(ws))},
            rest \in AnalyzeEach(op, Tail(ws))}

\* The index of the first word no worker has taken yet: the chunks still in
\* chunksCh lie between it and the dispatcher's index, which is past the end
\* of the list after a last chunk shorter than ChunkSize.
FirstUntaken == Min(di - Len(chunksCh) * ChunkSize, Len(words))

\* The window of the list that the k-th chunk waiting in chunksCh must be.
WaitingWindow(k) ==
    Slice(words, FirstUntaken + (k - 1) * ChunkSize,
          Min(FirstUntaken + k * ChunkSize, Len(words)))

\* Everything the workers have produced so far: collected, in resultCh, or
\* held by a worker that is about to send.
Produced ==
    allParsed \o Concat(resultCh) \o Concat([w \in Workers |-> wbuf[w]])

\* The chunks waiting in chunksCh are the consecutive windows of ChunkSize
\* words (the last one possibly shorter, none empty) that end at the
\* dispatcher's index: contiguous, disjoint, and with the words before
\* FirstUntaken they cover the list up to the dispatcher's index.
ChunksTileTheList ==
    /\ FirstUntaken >= 0
    /\ di % ChunkSize = 0
    /\ di < Len(words) + ChunkSize
    /\ \A k \in 1..Len(chunksCh) :
          /\ chunksCh[k] = WaitingWindow(k)
          /\ Len(chunksCh[k]) \in 1..ChunkSize

\* What has been produced is one Analyze outcome for each occurrence of a
\* word before FirstUntaken: each chunk that left chunksCh was analyzed by
\* one worker, once.
TakenOnce ==
    BagOf(Produced) \in {BagOf(rs) : rs \in AnalyzeEach(bop, Slice(words, 0, FirstUntaken))}

-----------------------------------------------------------------------------
(* C27: the shape of a Predict result that passed its checks. *)

\* No two entries share a surface form and the entries ascend by it.
StrictlyAscendingByWord(list) ==
    \A i \in 1..(Len(list) - 1) : StrLess(list[i].Word, list[i + 1].Word)

\* Predict(last.word, last.lemma) found a rule and passed the checks against
\* the template word.
PredictPassedChecks ==
    /\ last.op = "Predict"
    /\ BestRule(last.word).found
    /\ TemplateWordFits(ToLower(last.word), BestRule(last.word).best)

\* C27: whenever Predict(word, lemma) passes its compatibility checks
\* (FormIdx in range, template word at least SuffixLen characters long and
\* ending with the common suffix), its result is non-empty, contains the
\* lower-cased input word as a surface form, and is strictly ascending by
\* surface form.
C27_PredictHoldsInputWordStrictlyAscending ==
    PredictPassedChecks =>
        /\ Len(last.forms) > 0
        /\ \E i \in 1..Len(last.forms) : last.forms[i].Word = ToLower(last.word)
        /\ StrictlyAscendingByWord(last.forms)

\* C27 witness: Predict of a word with an upper-case letter passed its checks
\* with a non-empty input prefix and returned several forms, the lower-cased
\* word among them and not the first.
C27_Witness ==
    /\ PredictPassedChecks
    /\ last.word # ToLower(last.word)
    /\ BestRule(last.word).best.SuffixLen < Len(last.word)
    /\ Len(last.forms) > 1
    /\ \E i \in 2..Len(last.forms) : last.forms[i].Word = ToLower(last.word)

-----------------------------------------------------------------------------
(* C28: what a failed load leaves of the mapping. *)

\* CreateAnalyzer ran a load of last.file that mapped the file and did not
\* return an analyzer.
LoadFailedAfterMap ==
    /\ last.op = "CreateAnalyzer"
    /\ last.file.exists /\ last.file.mapOK
    /\ last.outcome # "analyzer"

\* C28 (as claimed): on each path where loadInternal does not return an
\* analyzer after mmap.Map succeeded (file shorter than the header, wrong
\* magic, gzip or gob failure, region offsets outside the file), the mapping
\* has been unmapped when control leaves loadInternal.
C28_FailedLoadLeavesNoMapping ==
    LoadFailedAfterMap => ~loadInternal(last.file).mapped

-----------------------------------------------------------------------------
(* C29: where the tokens of a tag string end up. *)

\* The categories of the switch, in its order, each with its vocabulary.
Categories ==
    << [field |-> "Animacy", vocabulary |-> animacyTags],
       [field |-> "Aspect", vocabulary |-> aspectTags],
       [field |-> "Case", vocabulary |-> caseTags],
       [field |-> "Gender", vocabulary |-> genderTags],
       [field |-> "Mood", vocabulary |-> moodTags],
       [field |-> "Number", vocabulary |-> numberTags],
       [field |-> "Person", vocabulary |-> personTags],
       [field |-> "Tense", vocabulary |-> tenseTags],
       [field |-> "Transitivity", vocabulary |-> transTags],
       [field |-> "Voice", vocabulary |-> voiceTags] >>

\* The tokens of the decomposed tag string.
Tokens == Split(last.tagString)

\* The token at position i is the part of speech: the first token, in posTags.
IsPartOfSpeech(i) == i = 1 /\ Tokens[1] \in posTags

\* The categories whose vocabulary holds the token.
Matches(g) == {k \in DOMAIN Categories : g \in Categories[k].vocabulary}

FirstMatch(g) == CHOOSE k \in Matches(g) : \A j \in Matches(g) : k <= j

\* The places the token is found in: the names of the fields that hold it (a
\* field that is the empty string holds nothing), and "OtherTags" if that set
\* holds it.
PlacesOf(g) ==
    {f \in {"PartOfSpeech"} \cup {Categories[k].field : k \in DOMAIN Categories} :
        g # <<>> /\ last.fields[f] = g}
    \cup (IF g \in last.fields.OtherTags THEN {"OtherTags"} ELSE {})

\* C29 (as claimed): the first token becomes PartOfSpeech iff it is in the
\* part-of-speech vocabulary; every other token (and the first one when it is
\* no part of speech) is in the field of the first category whose vocabulary
\* holds it, and a token of no category, the empty token included, is in
\* OtherTags; each token of the string is in exactly one field or in
\* OtherTags.
C29_EveryTokenInOnePlace ==
    last.op = "newParsed" =>
        /\ last.fields.PartOfSpeech = (IF Tokens[1] \in posTags THEN Tokens[1] ELSE <<>>)
        /\ \A i \in DOMAIN Tokens :
              /\ ~IsPartOfSpeech(i) /\ Matches(Tokens[i]) # {}
                    => last.fields[Categories[FirstMatch(Tokens[i])].field] = Tokens[i]
              /\ ~IsPartOfSpeech(i) /\ Matches(Tokens[i]) = {}
                    => Tokens[i] \in last.fields.OtherTags
              /\ Cardinality(PlacesOf(Tokens[i])) = 1

====
